---- MODULE Spec2Model ----
(***************************************************************************)
(* Batch upload orchestration of the Azure GigWarm exporter.               *)
(*                                                                         *)
(* One payload is pushed by the host pipeline (exporterhelper).  Each push *)
(* call encodes the payload into n batches, launches one goroutine per     *)
(* batch (uploadBatchesWithRetry), each goroutine runs                     *)
(* uploadBatchWithRetry, and the call returns after the WaitGroup barrier. *)
(* When a push call returns an error the host's export-level retry may     *)
(* invoke push again for the same payload.                                 *)
(*                                                                         *)
(* The logs exporter (pushLogs) runs the same dispatch and retry code; the  *)
(* definitions below follow the traces exporter.  The poll of ctx.Done()   *)
(* at the top of the retry loop and the UploadBatch call that follows it   *)
(* are one step: the poll is the only read of shared state between them.   *)
(*                                                                         *)
(* Time is not modelled: an inter-attempt sleep is a state in which the    *)
(* timer may fire at any moment; the backoff duration is not part of this  *)
(* state machine.                                                          *)
(***************************************************************************)
EXTENDS Integers, Naturals, Sequences, FiniteSets, TLC

\* ------------------------------------------------------------------ bounds
\* largest number of batches the encoder returns for the payload
NumBatches == 2
\* number of push invocations the host makes for the payload
MaxCalls == 2
\* largest configured max_retries explored (negative values are explored too)
MaxRetriesBound == 1

\* sleeps of one batch that are followed
MaxSleeps == 3

\* push calls of different payloads that run concurrently
NumCallers == 2

\* ------------------------------------------------------- program constants
\* maxRetries used when the configured value is negative
DefaultMaxRetries == 3

VARIABLES
    cfg,          \* e.cfg.BatchRetryConfig: [Enabled, MaxRetries]
    numBatches,   \* batches.Len() for the payload
    callNo,       \* number of push invocations made so far
    callPc,       \* "idle" | "dispatch" | "returned"
    callResult,   \* error returned by the last push call (kind "nil" = no error)
    ctxDone,      \* ctx.Done() is closed
    task,         \* per batch index: the goroutine running uploadBatchWithRetry
    resultChan,   \* buffered channel of batchResult, in send order
    wg,           \* sync.WaitGroup counter
    batchesOpen,  \* the EncodedBatches handle is non-nil
    batchFrees,   \* geneva_batches_free calls made by the current push call
    delivered,    \* per batch index: uploads the backend accepted, over all calls
    clientOpen,   \* the GenevaClient handle is non-nil
    uaf,          \* the native client was freed while a native call was using it
    bk,           \* backoff bookkeeping of one batch retryer (intervals in ms)
    encodeCalls,  \* EncodeAndCompressSpans calls made by the current push call
    cc,           \* per concurrent caller: its push call of a one-batch payload
    ctor,         \* newTracesExporter: the Config given and how far it got
    tel,          \* the push-level counters and each caller's pushTraces call
    lg,           \* a logs dispatch and a traces dispatch given the same inputs
    cl            \* a client and a BatchSet used and closed by one goroutine

\* the exporter's lifecycle state
lifecycleVars == <<clientOpen, uaf>>

backoffVars == <<bk>>

concurrentVars == <<cc>>

constructionVars == <<ctor>>

telemetryVars == <<tel>>

comparisonVars == <<lg>>

closingVars == <<cl>>

\* what the dispatch and retry steps of a push call never touch
frame == <<lifecycleVars, backoffVars, concurrentVars, constructionVars,
    telemetryVars, comparisonVars, closingVars,
           encodeCalls>>

vars == <<cfg, numBatches, callNo, callPc, callResult, ctxDone, task,
          resultChan, wg, batchesOpen, batchFrees, delivered, frame>>

Batches == 0 .. (NumBatches - 1)

\* the batch indices of the current payload
Active == 0 .. (numBatches - 1)

\* count of an error whose text carries no span or log-record count
NoCount == -1

\* ------------------------------------------------------------------ errors
\* Errors are records of one shape.  cause is the ordinal (1-based) of the
\* upload call of that batch whose error is wrapped; 0 when there is none.
\* stage tells the two encoding errors of pushTraces apart.
NoErr == [kind |-> "nil", stage |-> "", index |-> -1, attempts |-> 0,
          cause |-> 0, count |-> NoCount]

\* ctx.Err()
Cancelled == [kind |-> "Cancelled", stage |-> "upload", index |-> -1,
              attempts |-> 0, cause |-> 0, count |-> NoCount]

\* fmt.Errorf("failed to upload spans batch %d to Geneva Warm: %w", index, err)
UploadFailed(index, cause) ==
    [kind |-> "UploadFailed", stage |-> "upload", index |-> index,
     attempts |-> 0, cause |-> cause, count |-> NoCount]

\* fmt.Errorf("failed to upload spans batch %d after %d attempts: %w", ...)
MaxRetriesExceeded(index, attempts, cause) ==
    [kind |-> "MaxRetriesExceeded", stage |-> "upload", index |-> index,
     attempts |-> attempts, cause |-> cause, count |-> NoCount]

\* fmt.Errorf("failed to encode spans for Geneva Warm: %w",
\*            errors.New("geneva client is closed"))
ClientClosed == [kind |-> "ClientClosed", stage |-> "encode", index |-> -1,
                 attempts |-> 0, cause |-> 0, count |-> NoCount]

\* fmt.Errorf("failed to marshal traces to protobuf: %w", err) (stage "marshal")
\* fmt.Errorf("failed to encode spans for Geneva Warm: %w", err) (stage "encode")
EncodingFailed(stage) ==
    [kind |-> "EncodingFailed", stage |-> stage, index |-> -1, attempts |-> 0,
     cause |-> 0, count |-> NoCount]

\* ------------------------------------------------------------- telemetry
\* value of the attempts field of an event recorded without an "attempts" tag
NoAttemptsTag == 0

\* e.telemetry.recordBatchExported(ctx, ...retry_enabled[, attempts])
BatchExported(retry, attempts) ==
    [name |-> "batch_exported", error |-> "", retry_enabled |-> retry,
     attempts |-> attempts]

\* e.telemetry.recordBatchExportError(ctx, ...error, retry_enabled[, attempts])
BatchExportError(error, retry, attempts) ==
    [name |-> "batch_export_error", error |-> error, retry_enabled |-> retry,
     attempts |-> attempts]

\* ---------------------------------------------------------- configuration
\* AuthMethod: MSI = iota, Certificate, WorkloadIdentity
MSI == 0
Certificate == 1
WorkloadIdentity == 2

\* a value of every required string field, and the empty string
StringValues == {"", "x"}

\* the values an AuthMethod (an int) may be given, valid or not
AuthMethods == {-1, MSI, Certificate, WorkloadIdentity, 3}

\* the Config fields that Validate reads
Configs ==
    [Endpoint : StringValues, Environment : StringValues,
     Account : StringValues, Namespace : StringValues, Region : StringValues,
     Tenant : StringValues, RoleName : StringValues,
     RoleInstance : StringValues, AuthMethod : AuthMethods,
     CertPath : StringValues, WorkloadIdentityResource : StringValues]

ValidConfig ==
    [Endpoint |-> "x", Environment |-> "x", Account |-> "x",
     Namespace |-> "x", Region |-> "x", Tenant |-> "x", RoleName |-> "x",
     RoleInstance |-> "x", AuthMethod |-> MSI, CertPath |-> "",
     WorkloadIdentityResource |-> ""]

ValidateIgnoresCertPath(c) ==
    IF c.Endpoint = "" THEN "endpoint"
    ELSE IF c.Environment = "" THEN "environment"
    ELSE IF c.Account = "" THEN "account"
    ELSE IF c.Namespace = "" THEN "namespace"
    ELSE IF c.Region = "" THEN "region"
    ELSE IF c.Tenant = "" THEN "tenant"
    ELSE IF c.RoleName = "" THEN "role_name"
    ELSE IF c.RoleInstance = "" THEN "role_instance"
    ELSE IF c.AuthMethod \notin {MSI, Certificate, WorkloadIdentity}
         THEN "auth_method"
    ELSE IF c.AuthMethod = WorkloadIdentity /\ c.WorkloadIdentityResource = ""
         THEN "workload_identity_resource"
    ELSE ""

\* Config.Validate: what the returned error names, "" for a nil error
Validate(c) ==
    IF c.Endpoint = "" THEN "endpoint"
    ELSE IF c.Environment = "" THEN "environment"
    ELSE IF c.Account = "" THEN "account"
    ELSE IF c.Namespace = "" THEN "namespace"
    ELSE IF c.Region = "" THEN "region"
    ELSE IF c.Tenant = "" THEN "tenant"
    ELSE IF c.RoleName = "" THEN "role_name"
    ELSE IF c.RoleInstance = "" THEN "role_instance"
    ELSE IF c.AuthMethod \notin {MSI, Certificate, WorkloadIdentity}
         THEN "auth_method"
    ELSE IF c.AuthMethod = Certificate /\ c.CertPath = "" THEN "cert_path"
    ELSE IF c.AuthMethod = WorkloadIdentity /\ c.WorkloadIdentityResource = ""
         THEN "workload_identity_resource"
    ELSE ""

\* os.Getenv of the two variables the factory reads: "" when unset or empty
EnvValues == {"", "e"}
Envs == [GENEVA_ROLE_NAME : EnvValues, GENEVA_ROLE_INSTANCE : EnvValues]
NoEnv == [GENEVA_ROLE_NAME |-> "", GENEVA_ROLE_INSTANCE |-> ""]

\* construction state of an exporter that was made from ValidConfig.  config
\* is the Config the constructor works on, given the Config handed to the
\* factory, env the environment, pc "given" | "new" | "validated" |
\* "failed" | "created", err what construction failed with.
CreatedExporter ==
    [config |-> ValidConfig, given |-> ValidConfig, env |-> NoEnv,
     pc |-> "created", err |-> ""]

\* ------------------------------------------------------ concurrent callers
Callers == 1 .. NumCallers

\* A caller's push call of a payload that encodes to one batch.  ctxDone is the
\* call's own context; attempt, backoff are the locals of uploadBatchWithRetry;
\* outs are the results of the call's UploadBatch calls, sleeps its completed
\* waits; calls counts the push calls this caller has made.
IdleCall == [pc |-> "idle", calls |-> 0, ctxDone |-> FALSE, attempt |-> 0,
             backoff |-> 0, outs |-> <<>>, sleeps |-> <<>>, result |-> NoErr]

\* the push-level counters of the telemetry struct, and per caller its
\* pushTraces call: pc is "idle" | "received" | "dispatch" | "returned",
\* spanCount is td.SpanCount(), err the error returned ("" for nil), events
\* the names of the push-level events the call has recorded; started counts
\* the calls begun.
NoTelemetry ==
    [tracesReceived |-> 0, tracesExported |-> 0, tracesExportErrors |-> 0,
     spansReceived |-> 0, spansExported |-> 0, spansExportErrors |-> 0,
     started |-> 0,
     call |-> [c \in Callers |->
                 [pc |-> "idle", spanCount |-> 0, err |-> "", events |-> <<>>]]]

\* one batch goroutine of a dispatch: pc is "idle" | "ready" | "upload" |
\* "sleep" | "done"; attempt and backoff are the locals of
\* uploadBatchWithRetry; ops lists what it did, <<"upload">> per UploadBatch
\* call and <<"sleep", ms>> per completed wait; err is what it returned;
\* events are the batch telemetry events it recorded.
IdleRetryer == [pc |-> "idle", attempt |-> 0, backoff |-> 0, ops |-> <<>>,
                err |-> NoErr, events |-> <<>>]

\* one uploadBatchesWithRetry call: pc is "idle" | "dispatch" | "returned"
IdleDispatch == [pc |-> "idle", task |-> [i \in Batches |-> IdleRetryer],
                 resultChan |-> <<>>, err |-> NoErr]

\* the traces exporter and the logs exporter before a push, with the context
\* both calls are given
NoDispatches == [ctxDone |-> FALSE, traces |-> IdleDispatch,
                 logs |-> IdleDispatch]

\* a client as NewGenevaClient returns it and no BatchSet yet.  batches is
\* "none" | "open" (handle non-nil) | "closed" (handle nil); clientFrees and
\* batchesFrees count the native free calls on the client and on the current
\* BatchSet; clientCalls counts the native calls given the client handle;
\* closes counts the Close and shutdown calls on the client; faults counts
\* native calls given a freed handle; last is the outcome of the latest
\* operation; ops counts the operations.
NewHandles == [clientHandle |-> TRUE, clientFrees |-> 0, clientCalls |-> 0,
               closes |-> 0, batches |-> "none", batchesFrees |-> 0,
               faults |-> 0,
               last |-> [op |-> "new", err |-> "", len |-> 0], ops |-> 0]

\* ------------------------------------------------------------- task state
\* pc: "idle" (no goroutine), "ready" (about to attempt), "upload" (UploadBatch
\* in flight), "sleep" (in the backoff select), "done" (goroutine finished).
\* attempt and lastErr are the locals of uploadBatchWithRetry; uploads, oks,
\* fails and sleeps count the UploadBatch calls issued, the ones that returned
\* nil, the ones that returned an error, and the backoff selects entered.
\* native: the UploadBatch call in flight got past the nil checks and is inside
\* geneva_upload_batch_sync.  events: the batch telemetry events this goroutine
\* recorded, in order.
IdleTask == [pc |-> "idle", attempt |-> 0, uploads |-> 0, oks |-> 0, fails |-> 0,
             sleeps |-> 0, lastErr |-> 0, result |-> NoErr, native |-> FALSE,
             events |-> <<>>]

ReadyTask == [IdleTask EXCEPT !.pc = "ready"]

\* maxRetries := e.cfg.BatchRetryConfig.MaxRetries; if maxRetries < 0 { maxRetries = 3 }
maxRetries == IF cfg.MaxRetries < 0 THEN DefaultMaxRetries ELSE cfg.MaxRetries

\* --------------------------------------------------------------- backoff
\* Durations are whole milliseconds.  A multiplier is held as a number of
\* halves (4 is 2.0), which float64 represents exactly.

\* time.Duration(f) for a float f = n / d: truncation toward zero
Trunc(n, d) == IF n >= 0 THEN n \div d ELSE -((-n) \div d)

\* the interval strings a configuration file may carry
DurationStrings == {"", "abc", "-1s", "50ms", "100ms", "1s", "5s", "10s"}

\* time.ParseDuration returns a nil error
ParseOk(str) == str \in {"-1s", "50ms", "100ms", "1s", "5s", "10s"}

\* time.ParseDuration: the duration in ms (0 along with a parse error)
ParseDuration(str) ==
    CASE str = "-1s"   -> -1000
      [] str = "50ms"  -> 50
      [] str = "100ms" -> 100
      [] str = "1s"    -> 1000
      [] str = "5s"    -> 5000
      [] str = "10s"   -> 10000
      [] OTHER         -> 0

GetInitialInterval(str) ==
    IF str = "" THEN 100
    ELSE IF ~ParseOk(str) THEN 100
    ELSE ParseDuration(str)

GetMaxInterval(str) ==
    IF str = "" THEN 5000
    ELSE IF ~ParseOk(str) THEN 5000
    ELSE ParseDuration(str)

\* the multipliers a configuration may carry, in halves: -1.0, 0, 0.5 .. 2.0
Multipliers2 == {-2, 0, 1, 2, 3, 4}

EffectiveMultiplier2AsConfigured(m2) == m2

\* if multiplier <= 0 { multiplier = 2.0 }
EffectiveMultiplier2(m2) == IF m2 <= 0 THEN 4 ELSE m2

\* Instants time.Now() may return, by the bits of UnixNano(): any present-day
\* instant, and the three far-future instants whose bits are those of the
\* float64 values 0.5, 1.0 and 2.0
ClockInstants == {"present", "0x3FE0000000000000", "0x3FF0000000000000",
                  "0x4000000000000000"}

\* 2 * math.Float64frombits(uint64(UnixNano)).  The bits of a present-day
\* UnixNano (about 1.8e18) are those of a float64 near 1e-188, and 2u - 1
\* then rounds to exactly -1.
TwiceFloat64frombits(clock) ==
    CASE clock = "present"            -> 0
      [] clock = "0x3FE0000000000000" -> 1
      [] clock = "0x3FF0000000000000" -> 2
      [] clock = "0x4000000000000000" -> 4

\* backoff = time.Duration(float64(backoff) * multiplier), never clamped
UnjitteredUnclamped(backoff, mult2, maxInterval) == Trunc(backoff * mult2, 2)

\* backoff = time.Duration(float64(backoff) * multiplier)
\* if backoff > maxInterval { backoff = maxInterval }
Unjittered(backoff, mult2, maxInterval) ==
    LET b == Trunc(backoff * mult2, 2)
    IN  IF b > maxInterval THEN maxInterval ELSE b

JitterNone(backoff, clock) == 0

\* time.Duration(float64(backoff) * 0.1 * (2*Float64frombits(...) - 1))
Jitter(backoff, clock) ==
    Trunc(backoff * (TwiceFloat64frombits(clock) - 1), 10)

\* the retryer of one batch before its first attempt: backoff := initialInterval
NewRetryer(initStr, maxStr, m2) ==
    [InitialInterval |-> initStr,
     MaxInterval     |-> maxStr,
     Multiplier2     |-> m2,
     initialInterval |-> GetInitialInterval(initStr),
     maxInterval     |-> GetMaxInterval(maxStr),
     multiplier2     |-> EffectiveMultiplier2(m2),
     backoff         |-> GetInitialInterval(initStr),
     sleeps          |-> <<>>,     \* the durations slept so far
     unjittered      |-> <<>>,     \* the clamped value of every advance
     clocks          |-> <<>>,     \* the instant read by every advance
     result          |-> "running",\* "running" | "ok" | "exhausted"
     attempts        |-> 0]        \* the attempts reported when it returned


Init ==
    /\ cfg \in [Enabled : BOOLEAN, MaxRetries : -1 .. MaxRetriesBound]
    /\ numBatches \in 0 .. NumBatches
    /\ callNo = 0
    /\ callPc = "idle"
    /\ callResult = NoErr
    /\ ctxDone = FALSE
    /\ task = [i \in Batches |-> IdleTask]
    /\ resultChan = <<>>
    /\ wg = 0
    /\ batchesOpen = FALSE
    /\ batchFrees = 0
    /\ delivered = [i \in Batches |-> 0]
    /\ clientOpen = TRUE
    /\ uaf = FALSE
    /\ tel = NoTelemetry
    /\ lg = NoDispatches
    /\ cl = NewHandles
    /\ encodeCalls = 0
    /\ cc = [c \in Callers |-> IdleCall]
    /\ ctor = CreatedExporter
    /\ bk = NewRetryer("100ms", "5s", 4)


\* ------------------------------------------------- uploadBatchWithRetry
\* for attempt := 0; attempt <= maxRetries; attempt++
LoopCond(attempt) == attempt <= maxRetries

\* if attempt == maxRetries { break }
IsLastAttemptNever(attempt) == FALSE
IsLastAttempt(attempt) == attempt = maxRetries

\* The goroutine body after uploadBatchWithRetry returned a non-nil err: the
\* error is sent on resultChan, then the deferred wg.Done() runs.
\* resultChan := make(chan batchResult, n)
ChanCapOneShort == numBatches - 1
ChanCap == numBatches

\* resultChan <- r: the sender proceeds only while the buffer has room
ChanSend(r) ==
    /\ Len(resultChan) < ChanCap
    /\ resultChan' = Append(resultChan, r)

TaskReturn(i, err) ==
    /\ task' = [task EXCEPT ![i].pc = "done", ![i].result = err]
    /\ ChanSend( [index |-> i, err |-> err])
    /\ wg' = wg - 1

\* Retry disabled: e.client.UploadBatch is called without looking at ctx.
UploadOnce(i) ==
    /\ ~cfg.Enabled
    /\ task[i].pc = "ready"
    /\ task' = [task EXCEPT ![i].pc = "upload", ![i].uploads = @ + 1,
                            ![i].native = clientOpen]
    /\ UNCHANGED <<frame, cfg, numBatches, callNo, callPc, callResult, ctxDone,
                   resultChan, wg, batchesOpen, batchFrees, delivered>>

\* Retry enabled, top of the loop: case <-ctx.Done(): return ctx.Err()
RetryCancelledAtCheck(i) ==
    /\ cfg.Enabled
    /\ task[i].pc = "ready"
    /\ ctxDone
    /\ TaskReturn(i, Cancelled)
    /\ UNCHANGED <<frame, cfg, numBatches, callNo, callPc, callResult, ctxDone,
                   batchesOpen, batchFrees, delivered>>

RetryUploadPollFirstOnly(i) ==
    /\ cfg.Enabled
    /\ task[i].pc = "ready"
    /\ (task[i].attempt = 0 => ~ctxDone)
    /\ task' = [task EXCEPT ![i].pc = "upload", ![i].uploads = @ + 1,
                            ![i].native = clientOpen]
    /\ UNCHANGED <<frame, cfg, numBatches, callNo, callPc, callResult, ctxDone,
                   resultChan, wg, batchesOpen, batchFrees, delivered>>

RetryUploadNoPoll(i) ==
    /\ cfg.Enabled
    /\ task[i].pc = "ready"
    /\ task' = [task EXCEPT ![i].pc = "upload", ![i].uploads = @ + 1,
                            ![i].native = clientOpen]
    /\ UNCHANGED <<frame, cfg, numBatches, callNo, callPc, callResult, ctxDone,
                   resultChan, wg, batchesOpen, batchFrees, delivered>>

RetryUploadWithoutWaiting(i) ==
    /\ cfg.Enabled
    /\ task[i].pc \in {"ready", "upload"}
    /\ task[i].attempt + task[i].uploads <= maxRetries
    /\ ~ctxDone
    /\ task' = [task EXCEPT ![i].pc = "upload", ![i].uploads = @ + 1,
                            ![i].native = clientOpen]
    /\ UNCHANGED <<frame, cfg, numBatches, callNo, callPc, callResult, ctxDone,
                   resultChan, wg, batchesOpen, batchFrees, delivered>>

\* Retry enabled, top of the loop: the select takes its default branch and
\* e.client.UploadBatch(batches, index) is called.
RetryUpload(i) ==
    /\ cfg.Enabled
    /\ task[i].pc = "ready"
    /\ ~ctxDone
    /\ task' = [task EXCEPT ![i].pc = "upload", ![i].uploads = @ + 1,
                            ![i].native = clientOpen]
    /\ UNCHANGED <<frame, cfg, numBatches, callNo, callPc, callResult, ctxDone,
                   resultChan, wg, batchesOpen, batchFrees, delivered>>

UploadSucceedsKeepsLooping(i) ==
    /\ task[i].pc = "upload"
    /\ delivered' = [delivered EXCEPT ![i] = @ + 1]
    /\ IF cfg.Enabled /\ ~IsLastAttempt(task[i].attempt)
       THEN /\ task' = [task EXCEPT ![i].pc = "sleep", ![i].sleeps = @ + 1,
                                    ![i].oks = @ + 1]
            /\ UNCHANGED <<resultChan, wg>>
       ELSE /\ task' = [task EXCEPT ![i].pc = "done", ![i].oks = @ + 1]
            /\ wg' = wg - 1
            /\ UNCHANGED resultChan
    /\ UNCHANGED <<frame, cfg, numBatches, callNo, callPc, callResult, ctxDone,
                   batchesOpen, batchFrees>>

\* UploadBatch returned nil: return nil (both the disabled and the enabled path)
UploadSucceeds(i) ==
    /\ task[i].pc = "upload"
    /\ task[i].native
    /\ delivered' = [delivered EXCEPT ![i] = @ + 1]
    /\ task' = [task EXCEPT ![i].pc = "done", ![i].oks = @ + 1,
                            ![i].native = FALSE,
                            ![i].events = Append(@,
                                BatchExported(cfg.Enabled,
                                    IF cfg.Enabled THEN task[i].attempt + 1
                                                   ELSE NoAttemptsTag))]
    /\ wg' = wg - 1
    /\ UNCHANGED resultChan
    /\ UNCHANGED <<frame, cfg, numBatches, callNo, callPc, callResult, ctxDone,
                   batchesOpen, batchFrees>>

UploadFailsOnceAsExhaustion(i) ==
    /\ ~cfg.Enabled
    /\ task[i].pc = "upload"
    /\ LET t == [task[i] EXCEPT !.fails = @ + 1]
       IN  /\ task' = [task EXCEPT ![i] = [t EXCEPT !.pc = "done",
                          !.result = MaxRetriesExceeded(i, 1, t.uploads)]]
           /\ ChanSend(
                  [index |-> i, err |-> MaxRetriesExceeded(i, 1, t.uploads)])
           /\ wg' = wg - 1
    /\ UNCHANGED <<frame, cfg, numBatches, callNo, callPc, callResult, ctxDone,
                   batchesOpen, batchFrees, delivered>>

\* Retry disabled, UploadBatch returned err: the error is wrapped with the index
UploadFailsOnce(i) ==
    /\ ~cfg.Enabled
    /\ task[i].pc = "upload"
    /\ LET t == [task[i] EXCEPT !.fails = @ + 1, !.native = FALSE,
                    !.events = Append(@,
                         BatchExportError("upload_failed", FALSE, NoAttemptsTag))]
       IN  /\ task' = [task EXCEPT ![i] = [t EXCEPT !.pc = "done",
                          !.result = UploadFailed(i, t.uploads)]]
           /\ ChanSend(
                  [index |-> i, err |-> UploadFailed(i, t.uploads)])
           /\ wg' = wg - 1
    /\ UNCHANGED <<frame, cfg, numBatches, callNo, callPc, callResult, ctxDone,
                   batchesOpen, batchFrees, delivered>>

ExhaustedWithoutDone(i, t) ==
    /\ task' = [task EXCEPT ![i] = [t EXCEPT !.pc = "done",
                   !.result = MaxRetriesExceeded(i, maxRetries + 1, t.lastErr),
                   !.events = Append(@,
                        BatchExportError("max_retries_exceeded", TRUE,
                                         maxRetries + 1))]]
    /\ ChanSend(
           [index |-> i, err |-> MaxRetriesExceeded(i, maxRetries + 1, t.lastErr)])
    /\ wg' = wg

\* The exit of the retry loop: the batch gave up after maxRetries+1 attempts
Exhausted(i, t) ==
    /\ task' = [task EXCEPT ![i] = [t EXCEPT !.pc = "done",
                   !.result = MaxRetriesExceeded(i, maxRetries + 1, t.lastErr),
                   !.events = Append(@,
                        BatchExportError("max_retries_exceeded", TRUE,
                                         maxRetries + 1))]]
    /\ ChanSend(
           [index |-> i, err |-> MaxRetriesExceeded(i, maxRetries + 1, t.lastErr)])
    /\ wg' = wg - 1

UploadFailsNoSleep(i) ==
    /\ cfg.Enabled
    /\ task[i].pc = "upload"
    /\ LET t == [task[i] EXCEPT !.fails = @ + 1, !.lastErr = task[i].uploads,
                                !.native = FALSE]
       IN  IF IsLastAttempt(t.attempt)
           THEN Exhausted(i, t)
           ELSE /\ task' = [task EXCEPT ![i] =
                               [t EXCEPT !.pc = "ready", !.attempt = @ + 1]]
                /\ UNCHANGED <<resultChan, wg>>
    /\ UNCHANGED <<frame, cfg, numBatches, callNo, callPc, callResult, ctxDone,
                   batchesOpen, batchFrees, delivered>>

UploadFailsRestartsSiblings(i) ==
    /\ cfg.Enabled
    /\ task[i].pc = "upload"
    /\ LET t == [task[i] EXCEPT !.fails = @ + 1, !.lastErr = task[i].uploads,
                                !.native = FALSE]
           again == {j \in Active : j # i /\ task[j].pc = "done" /\ task[j].oks > 0
                                        /\ task[j].uploads <= maxRetries}
       IN  IF IsLastAttempt(t.attempt)
           THEN Exhausted(i, t)
           ELSE /\ task' = [j \in Batches |->
                               IF j = i THEN [t EXCEPT !.pc = "sleep", !.sleeps = @ + 1]
                               ELSE IF j \in again
                                    THEN [task[j] EXCEPT !.pc = "ready", !.oks = 0]
                                    ELSE task[j]]
                /\ wg' = wg + Cardinality(again)
                /\ UNCHANGED resultChan
    /\ UNCHANGED <<frame, cfg, numBatches, callNo, callPc, callResult, ctxDone,
                   batchesOpen, batchFrees, delivered>>

\* Retry enabled, UploadBatch returned err: lastErr = err; on the last attempt
\* break out of the loop, otherwise enter the backoff select.
UploadFails(i) ==
    /\ cfg.Enabled
    /\ task[i].pc = "upload"
    /\ LET t == [task[i] EXCEPT !.fails = @ + 1, !.lastErr = task[i].uploads,
                                !.native = FALSE]
       IN  IF IsLastAttempt(t.attempt)
           THEN Exhausted(i, t)
           ELSE /\ task' = [task EXCEPT ![i] =
                               [t EXCEPT !.pc = "sleep", !.sleeps = @ + 1]]
                /\ UNCHANGED <<resultChan, wg>>
    /\ UNCHANGED <<frame, cfg, numBatches, callNo, callPc, callResult, ctxDone,
                   batchesOpen, batchFrees, delivered>>

\* Backoff select: case <-ctx.Done(): return ctx.Err()
SleepCancelled(i) ==
    /\ task[i].pc = "sleep"
    /\ ctxDone
    /\ TaskReturn(i, Cancelled)
    /\ UNCHANGED <<frame, cfg, numBatches, callNo, callPc, callResult, ctxDone,
                   batchesOpen, batchFrees, delivered>>

SleepTimerFiresNoIncrement(i) ==
    /\ task[i].pc = "sleep"
    /\ task[i].uploads <= DefaultMaxRetries + MaxRetriesBound + 2
    /\ task' = [task EXCEPT ![i].pc = "ready"]
    /\ UNCHANGED <<frame, cfg, numBatches, callNo, callPc, callResult, ctxDone,
                   resultChan, wg, batchesOpen, batchFrees, delivered>>

SleepTimerFiresNoPoll(i) ==
    /\ task[i].pc = "sleep"
    /\ task' = [task EXCEPT ![i].pc = "upload", ![i].attempt = @ + 1,
                            ![i].uploads = @ + 1]
    /\ UNCHANGED <<frame, cfg, numBatches, callNo, callPc, callResult, ctxDone,
                   resultChan, wg, batchesOpen, batchFrees, delivered>>

\* Backoff select: case <-time.After(backoff).  The timer may win the select
\* also when ctx.Done() is ready.  Then attempt++ and the loop condition.
SleepTimerFires(i) ==
    /\ task[i].pc = "sleep"
    /\ LET t == [task[i] EXCEPT !.attempt = @ + 1]
       IN  IF LoopCond(t.attempt)
           THEN /\ task' = [task EXCEPT ![i] = [t EXCEPT !.pc = "ready"]]
                /\ UNCHANGED <<resultChan, wg>>
           ELSE Exhausted(i, t)
    /\ UNCHANGED <<frame, cfg, numBatches, callNo, callPc, callResult, ctxDone,
                   batchesOpen, batchFrees, delivered>>


\* ------------------------------------------------------------ pushTraces
\* The host calls push for the payload: the first time, or again (export-level
\* retry) after a call that returned an error while ctx is still live.
CanPush ==
    /\ callNo < MaxCalls
    /\ \/ callPc = "idle"
       \/ (callPc = "returned" /\ callResult.kind # "nil" /\ ~ctxDone)

\* req.MarshalProto() fails: the call returns before a BatchSet exists
PushMarshalFails ==
    /\ CanPush
    /\ callNo' = callNo + 1
    /\ callPc' = "returned"
    /\ callResult' = EncodingFailed("marshal")
    /\ task' = [i \in Batches |-> IdleTask]
    /\ resultChan' = <<>>
    /\ wg' = 0
    /\ batchesOpen' = FALSE
    /\ batchFrees' = 0
    /\ encodeCalls' = 0
    /\ UNCHANGED <<lifecycleVars, backoffVars, concurrentVars, constructionVars,
        telemetryVars, comparisonVars, closingVars,
                   cfg, numBatches, ctxDone, delivered>>

PushEncodeFailsEncodesAgain ==
    /\ CanPush
    /\ clientOpen
    /\ callNo' = callNo + 1
    /\ callPc' = "returned"
    /\ callResult' = EncodingFailed("encode")
    /\ task' = [i \in Batches |-> IdleTask]
    /\ resultChan' = <<>>
    /\ wg' = 0
    /\ batchesOpen' = FALSE
    /\ batchFrees' = 0
    /\ encodeCalls' = 2
    /\ UNCHANGED <<lifecycleVars, backoffVars, concurrentVars, constructionVars,
        telemetryVars, comparisonVars, closingVars,
                   cfg, numBatches, ctxDone, delivered>>

\* e.client.EncodeAndCompressSpans(data) fails: likewise
PushEncodeFails ==
    /\ CanPush
    /\ clientOpen
    /\ callNo' = callNo + 1
    /\ callPc' = "returned"
    /\ callResult' = EncodingFailed("encode")
    /\ task' = [i \in Batches |-> IdleTask]
    /\ resultChan' = <<>>
    /\ wg' = 0
    /\ batchesOpen' = FALSE
    /\ batchFrees' = 0
    /\ encodeCalls' = 1
    /\ UNCHANGED <<lifecycleVars, backoffVars, concurrentVars, constructionVars,
        telemetryVars, comparisonVars, closingVars,
                   cfg, numBatches, ctxDone, delivered>>

PushDispatchSkipsDelivered ==
    /\ CanPush
    /\ clientOpen
    /\ callNo' = callNo + 1
    /\ callPc' = "dispatch"
    /\ callResult' = NoErr
    /\ batchesOpen' = TRUE
    /\ batchFrees' = 0
    /\ resultChan' = <<>>
    /\ wg' = Cardinality({i \in Active : delivered[i] = 0})
    /\ task' = [i \in Batches |->
                  IF i \in Active /\ delivered[i] = 0 THEN ReadyTask
                  ELSE IF i \in Active THEN [IdleTask EXCEPT !.pc = "done"]
                  ELSE IdleTask]
    /\ encodeCalls' = 1
    /\ UNCHANGED <<lifecycleVars, backoffVars, concurrentVars, constructionVars,
        telemetryVars, comparisonVars, closingVars,
                   cfg, numBatches, ctxDone, delivered>>

PushDispatchStopsOneShort ==
    /\ CanPush
    /\ clientOpen
    /\ callNo' = callNo + 1
    /\ callPc' = "dispatch"
    /\ callResult' = NoErr
    /\ batchesOpen' = TRUE
    /\ batchFrees' = 0
    /\ resultChan' = <<>>
    /\ wg' = IF numBatches > 0 THEN numBatches - 1 ELSE 0
    /\ task' = [i \in Batches |-> IF i < numBatches - 1 THEN ReadyTask ELSE IdleTask]
    /\ encodeCalls' = 1
    /\ UNCHANGED <<lifecycleVars, backoffVars, concurrentVars, constructionVars,
        telemetryVars, comparisonVars, closingVars,
                   cfg, numBatches, ctxDone, delivered>>

\* Marshal and encode succeed; uploadBatchesWithRetry makes resultChan with
\* capacity n and starts one goroutine per index 0..n-1 (wg.Add(1) each).
PushDispatch ==
    /\ CanPush
    /\ clientOpen
    /\ callNo' = callNo + 1
    /\ callPc' = "dispatch"
    /\ callResult' = NoErr
    /\ batchesOpen' = TRUE
    /\ batchFrees' = 0
    /\ resultChan' = <<>>
    /\ wg' = numBatches
    /\ task' = [i \in Batches |-> IF i \in Active THEN ReadyTask ELSE IdleTask]
    /\ encodeCalls' = 1
    /\ UNCHANGED <<lifecycleVars, backoffVars, concurrentVars, constructionVars,
        telemetryVars, comparisonVars, closingVars,
                   cfg, numBatches, ctxDone, delivered>>

\* wg.Wait() returns
WaitGroupNoWait == TRUE
WaitGroupDone == wg = 0

\* failedBatches: everything drained from resultChan after close(resultChan)
failedBatches == resultChan

DispatchCollectFailsOnlyIfAllFailed ==
    /\ callPc = "dispatch"
    /\ WaitGroupDone
    /\ callResult' = IF Len(failedBatches) > 0 /\ Len(failedBatches) = numBatches
                     THEN failedBatches[1].err ELSE NoErr
    /\ callPc' = "returned"
    /\ batchesOpen' = FALSE
    /\ batchFrees' = batchFrees + 1
    /\ UNCHANGED <<frame, cfg, numBatches, callNo, ctxDone, task, resultChan, wg,
                   delivered>>

\* EncodedBatches.Close: frees the native handle if there is one, then nils it
BatchesClose ==
    IF batchesOpen
    THEN batchesOpen' = FALSE /\ batchFrees' = batchFrees + 1
    ELSE UNCHANGED <<batchesOpen, batchFrees>>

DispatchCollectClosesOnSuccessOnly ==
    /\ callPc = "dispatch"
    /\ WaitGroupDone
    /\ callResult' = IF Len(failedBatches) > 0 THEN failedBatches[1].err ELSE NoErr
    /\ callPc' = "returned"
    /\ IF Len(failedBatches) = 0 THEN BatchesClose
                                 ELSE UNCHANGED <<batchesOpen, batchFrees>>
    /\ UNCHANGED <<frame, cfg, numBatches, callNo, ctxDone, task, resultChan, wg,
                   delivered>>

\* After the barrier: close(resultChan), drain it into failedBatches, return
\* failedBatches[0].err if there is one; pushTraces returns that error as it
\* is and its deferred batches.Close() releases the BatchSet.
DispatchCollectReturnsLastError ==
    /\ callPc = "dispatch"
    /\ WaitGroupDone
    /\ callResult' = IF Len(failedBatches) > 0
                     THEN failedBatches[Len(failedBatches)].err ELSE NoErr
    /\ callPc' = "returned"
    /\ BatchesClose
    /\ UNCHANGED <<frame, cfg, numBatches, callNo, ctxDone, task, resultChan, wg,
                   delivered>>

DispatchCollect ==
    /\ callPc = "dispatch"
    /\ WaitGroupDone
    /\ callResult' = IF Len(failedBatches) > 0 THEN failedBatches[1].err ELSE NoErr
    /\ callPc' = "returned"
    /\ BatchesClose
    /\ UNCHANGED <<frame, cfg, numBatches, callNo, ctxDone, task, resultChan, wg,
                   delivered>>

CancelAbortsUploadsInFlight ==
    /\ ~ctxDone
    /\ ctxDone' = TRUE
    /\ task' = [i \in Batches |->
                  IF task[i].pc = "upload"
                  THEN [task[i] EXCEPT !.pc = "sleep", !.fails = @ + 1,
                                       !.sleeps = @ + 1]
                  ELSE task[i]]
    /\ UNCHANGED <<frame, cfg, numBatches, callNo, callPc, callResult,
                   resultChan, wg, batchesOpen, batchFrees, delivered>>

\* The caller's context is cancelled or its deadline passes
Cancel ==
    /\ ~ctxDone
    /\ ctxDone' = TRUE
    /\ UNCHANGED <<frame, cfg, numBatches, callNo, callPc, callResult, task,
                   resultChan, wg, batchesOpen, batchFrees, delivered>>

Next ==
    \/ PushMarshalFails
    \/ PushEncodeFails
    \/ PushDispatch
    \/ DispatchCollect
    \/ Cancel
    \/ \E i \in Batches :
          \/ UploadOnce(i)
          \/ RetryCancelledAtCheck(i)
          \/ RetryUpload(i)
          \/ UploadSucceeds(i)
          \/ UploadFailsOnce(i)
          \/ UploadFails(i)
          \/ SleepCancelled(i)
          \/ SleepTimerFires(i)

Spec == Init /\ [][Next]_vars

\* ------------------------------------------------------------- scheduling
\* any step of the goroutine of batch i
TaskStep(i) ==
    \/ UploadOnce(i)
    \/ RetryCancelledAtCheck(i)
    \/ RetryUpload(i)
    \/ UploadSucceeds(i)
    \/ UploadFailsOnce(i)
    \/ UploadFails(i)
    \/ SleepCancelled(i)
    \/ SleepTimerFires(i)

\* The Go scheduler runs every runnable goroutine, every UploadBatch call
\* returns and every time.After timer fires: a batch goroutine that can take a
\* step takes one, and so does the dispatcher once wg.Wait() can return.
Fairness ==
    /\ \A i \in Batches : WF_vars(TaskStep(i))
    /\ WF_vars(DispatchCollect)

\* the payloads and retry budgets followed under fairness: at most two
\* batches, maxRetries of -1 (the default 3), 0 or 1
LiveBatches == IF NumBatches < 2 THEN NumBatches ELSE 2
LiveRetries == IF MaxRetriesBound < 1 THEN MaxRetriesBound ELSE 1

InitLive ==
    /\ Init
    /\ numBatches <= LiveBatches
    /\ cfg.MaxRetries <= LiveRetries

\* The exporter under a fair scheduler
SpecLive == InitLive /\ [][Next]_vars /\ Fairness


\* ------------------------------------------------------------- lifecycle
\* tracesExporter.shutdown: e.client.Close() frees the native client when the
\* handle is non-nil and nils it.  Nothing waits for uploads in flight: a
\* native upload that is still running then works on freed memory.
Shutdown ==
    /\ clientOpen
    /\ clientOpen' = FALSE
    /\ uaf' = (uaf \/ \E i \in Batches : task[i].pc = "upload" /\ task[i].native)
    /\ UNCHANGED <<backoffVars, concurrentVars, constructionVars,
        telemetryVars, comparisonVars, closingVars, encodeCalls,
                   cfg, numBatches, callNo, callPc,
                   callResult, ctxDone, task, resultChan, wg, batchesOpen,
                   batchFrees, delivered>>

PushClientClosedDispatchesAnyway ==
    /\ CanPush
    /\ ~clientOpen
    /\ callNo' = callNo + 1
    /\ callPc' = "dispatch"
    /\ callResult' = NoErr
    /\ batchesOpen' = TRUE
    /\ batchFrees' = 0
    /\ resultChan' = <<>>
    /\ wg' = numBatches
    /\ task' = [i \in Batches |-> IF i \in Active THEN ReadyTask ELSE IdleTask]
    /\ encodeCalls' = 1
    /\ UNCHANGED <<lifecycleVars, backoffVars, concurrentVars, constructionVars,
        telemetryVars, comparisonVars, closingVars,
                   cfg, numBatches, ctxDone, delivered>>

\* push on a closed client: marshalling succeeds, EncodeAndCompressSpans sees
\* the nil handle and returns "geneva client is closed"; push wraps and returns it
PushClientClosed ==
    /\ CanPush
    /\ ~clientOpen
    /\ callNo' = callNo + 1
    /\ callPc' = "returned"
    /\ callResult' = ClientClosed
    /\ task' = [i \in Batches |-> IdleTask]
    /\ resultChan' = <<>>
    /\ wg' = 0
    /\ batchesOpen' = FALSE
    /\ batchFrees' = 0
    /\ encodeCalls' = 1
    /\ UNCHANGED <<lifecycleVars, backoffVars, concurrentVars, constructionVars,
        telemetryVars, comparisonVars, closingVars,
                   cfg, numBatches, ctxDone, delivered>>

\* One outcome of a native call on freed memory: the process dies, and with it
\* every goroutine.  (The other outcomes are that the call returns success or
\* an error, which UploadSucceeds and UploadFails already allow.)
Crash ==
    /\ uaf
    /\ callPc # "crashed"
    /\ callPc' = "crashed"
    /\ task' = [i \in Batches |-> [task[i] EXCEPT !.pc = "idle", !.native = FALSE]]
    /\ wg' = 0
    /\ UNCHANGED <<frame, cfg, numBatches, callNo, callResult, ctxDone,
                   resultChan, batchesOpen, batchFrees, delivered>>

NextLifecycle ==
    \/ Next
    \/ Shutdown
    \/ PushClientClosed
    \/ Crash

\* The exporter with its shutdown hook: the host may call shutdown at any moment
SpecLifecycle == Init /\ [][NextLifecycle]_vars

\* ------------------------------------------------------- backoff sequence
pushVars == <<cfg, numBatches, callNo, callPc, callResult, ctxDone, task,
              resultChan, wg, batchesOpen, batchFrees, delivered, encodeCalls>>

\* Every accepted retry configuration; no push call is running
InitBackoff ==
    /\ cfg \in [Enabled : {TRUE}, MaxRetries : -1 .. MaxSleeps]
    /\ numBatches = 1
    /\ callNo = 0
    /\ callPc = "idle"
    /\ callResult = NoErr
    /\ ctxDone = FALSE
    /\ task = [i \in Batches |-> IdleTask]
    /\ resultChan = <<>>
    /\ wg = 0
    /\ batchesOpen = FALSE
    /\ batchFrees = 0
    /\ delivered = [i \in Batches |-> 0]
    /\ clientOpen = TRUE
    /\ uaf = FALSE
    /\ tel = NoTelemetry
    /\ lg = NoDispatches
    /\ cl = NewHandles
    /\ encodeCalls = 0
    /\ cc = [c \in Callers |-> IdleCall]
    /\ ctor = CreatedExporter
    /\ \E initStr \in DurationStrings, maxStr \in DurationStrings,
          m2 \in Multipliers2 :
          bk = NewRetryer(initStr, maxStr, m2)

\* One failed attempt that is not the last: the timer of time.After(backoff)
\* fires, then the next backoff is computed with the clock read for the jitter
SleepAndAdvance(clock) ==
    /\ bk.result = "running"
    /\ Len(bk.sleeps) < maxRetries
    /\ Len(bk.sleeps) < MaxSleeps
    /\ LET u == Unjittered(bk.backoff, bk.multiplier2, bk.maxInterval)
       IN  bk' = [bk EXCEPT !.sleeps = Append(@, bk.backoff),
                            !.unjittered = Append(@, u),
                            !.clocks = Append(@, clock),
                            !.backoff = u + Jitter(u, clock)]
    /\ UNCHANGED <<pushVars, lifecycleVars, concurrentVars, constructionVars,
        telemetryVars, comparisonVars, closingVars>>

\* The attempt after Len(sleeps) sleeps succeeds: return nil, attempts = attempt + 1
AttemptSucceeds ==
    /\ bk.result = "running"
    /\ bk' = [bk EXCEPT !.result = "ok", !.attempts = Len(bk.sleeps) + 1]
    /\ UNCHANGED <<pushVars, lifecycleVars, concurrentVars, constructionVars,
        telemetryVars, comparisonVars, closingVars>>

\* The attempt with attempt == maxRetries fails: break without sleeping,
\* attempts = maxRetries + 1
LastAttemptFails ==
    /\ bk.result = "running"
    /\ Len(bk.sleeps) = maxRetries
    /\ bk' = [bk EXCEPT !.result = "exhausted", !.attempts = maxRetries + 1]
    /\ UNCHANGED <<pushVars, lifecycleVars, concurrentVars, constructionVars,
        telemetryVars, comparisonVars, closingVars>>

NextBackoff ==
    \/ \E clock \in ClockInstants : SleepAndAdvance(clock)
    \/ AttemptSucceeds
    \/ LastAttemptFails

\* The attempts and sleeps of one batch, for every configuration and every
\* outcome of its uploads
SpecBackoff == InitBackoff /\ [][NextBackoff]_vars

\* ------------------------------------------------------- concurrent calls
\* Every retry configuration with the default intervals; no caller has pushed
InitConcurrent ==
    /\ cfg \in [Enabled : BOOLEAN, MaxRetries : 0 .. MaxRetriesBound]
    /\ numBatches = 1
    /\ callNo = 0
    /\ callPc = "idle"
    /\ callResult = NoErr
    /\ ctxDone = FALSE
    /\ task = [i \in Batches |-> IdleTask]
    /\ resultChan = <<>>
    /\ wg = 0
    /\ batchesOpen = FALSE
    /\ batchFrees = 0
    /\ delivered = [i \in Batches |-> 0]
    /\ clientOpen = TRUE
    /\ uaf = FALSE
    /\ tel = NoTelemetry
    /\ lg = NoDispatches
    /\ cl = NewHandles
    /\ encodeCalls = 0
    /\ bk = NewRetryer("100ms", "5s", 4)
    /\ cc = [c \in Callers |-> IdleCall]
    /\ ctor = CreatedExporter

CallReturn(c, err) ==
    cc' = [cc EXCEPT ![c].pc = "returned", ![c].result = err]

CallPushKeepsRetryState(c) ==
    /\ cc[c].pc \in {"idle", "returned"}
    /\ cc[c].calls < MaxCalls
    /\ cc' = [cc EXCEPT ![c].pc = "ready", ![c].calls = @ + 1,
                        ![c].ctxDone = FALSE, ![c].outs = <<>>,
                        ![c].sleeps = <<>>, ![c].result = NoErr]
    /\ UNCHANGED <<pushVars, lifecycleVars, backoffVars, constructionVars,
        telemetryVars, comparisonVars, closingVars>>

\* The host calls push with a fresh context; the batch goroutine enters
\* uploadBatchWithRetry: backoff := initialInterval, attempt := 0
CallPush(c) ==
    /\ cc[c].pc \in {"idle", "returned"}
    /\ cc[c].calls < MaxCalls
    /\ cc' = [cc EXCEPT ![c] = [IdleCall EXCEPT !.pc = "ready",
                                               !.calls = cc[c].calls + 1,
                                               !.backoff = bk.initialInterval]]
    /\ UNCHANGED <<pushVars, lifecycleVars, backoffVars, constructionVars,
        telemetryVars, comparisonVars, closingVars>>

\* The caller's context is cancelled while its call runs
CallCancel(c) ==
    /\ cc[c].pc \in {"ready", "upload", "sleep"}
    /\ ~cc[c].ctxDone
    /\ cc' = [cc EXCEPT ![c].ctxDone = TRUE]
    /\ UNCHANGED <<pushVars, lifecycleVars, backoffVars, constructionVars,
        telemetryVars, comparisonVars, closingVars>>

\* Top of an iteration: with retry enabled ctx is polled, then UploadBatch
CallAttempt(c) ==
    /\ cc[c].pc = "ready"
    /\ IF cfg.Enabled /\ cc[c].ctxDone
       THEN CallReturn(c, Cancelled)
       ELSE cc' = [cc EXCEPT ![c].pc = "upload"]
    /\ UNCHANGED <<pushVars, lifecycleVars, backoffVars, constructionVars,
        telemetryVars, comparisonVars, closingVars>>

\* UploadBatch returns nil
CallUploadSucceeds(c) ==
    /\ cc[c].pc = "upload"
    /\ cc' = [cc EXCEPT ![c].pc = "returned", ![c].result = NoErr,
                        ![c].outs = Append(@, "ok")]
    /\ UNCHANGED <<pushVars, lifecycleVars, backoffVars, constructionVars,
        telemetryVars, comparisonVars, closingVars>>

\* UploadBatch returns an error
CallUploadFails(c) ==
    /\ cc[c].pc = "upload"
    /\ LET n == Len(cc[c].outs) + 1
       IN  cc' = [cc EXCEPT
                    ![c].outs = Append(@, "fail"),
                    ![c].pc = IF cfg.Enabled /\ ~IsLastAttempt(cc[c].attempt)
                              THEN "sleep" ELSE "returned",
                    ![c].result =
                        IF ~cfg.Enabled THEN UploadFailed(0, n)
                        ELSE IF IsLastAttempt(cc[c].attempt)
                             THEN MaxRetriesExceeded(0, maxRetries + 1, n)
                             ELSE NoErr]
    /\ UNCHANGED <<pushVars, lifecycleVars, backoffVars, constructionVars,
        telemetryVars, comparisonVars, closingVars>>

\* Backoff select: case <-ctx.Done()
CallSleepCancelled(c) ==
    /\ cc[c].pc = "sleep"
    /\ cc[c].ctxDone
    /\ CallReturn(c, Cancelled)
    /\ UNCHANGED <<pushVars, lifecycleVars, backoffVars, constructionVars,
        telemetryVars, comparisonVars, closingVars>>

\* Backoff select: case <-time.After(backoff); next backoff; attempt++
CallSleepTimerFires(c) ==
    /\ cc[c].pc = "sleep"
    /\ LET u == Unjittered(cc[c].backoff, bk.multiplier2, bk.maxInterval)
       IN  cc' = [cc EXCEPT ![c].pc = "ready",
                           ![c].sleeps = Append(@, cc[c].backoff),
                           ![c].backoff = u + Jitter(u, "present"),
                           ![c].attempt = @ + 1]
    /\ UNCHANGED <<pushVars, lifecycleVars, backoffVars, constructionVars,
        telemetryVars, comparisonVars, closingVars>>

NextConcurrent ==
    \E c \in Callers :
        \/ CallPush(c)
        \/ CallCancel(c)
        \/ CallAttempt(c)
        \/ CallUploadSucceeds(c)
        \/ CallUploadFails(c)
        \/ CallSleepCancelled(c)
        \/ CallSleepTimerFires(c)

\* Push calls of different payloads running concurrently on one exporter
SpecConcurrent == InitConcurrent /\ [][NextConcurrent]_vars

\* ----------------------------------------------------------- construction
\* newTracesExporter is about to run on some Config; no client exists yet
InitConstruct ==
    /\ cfg = [Enabled |-> TRUE, MaxRetries |-> DefaultMaxRetries]
    /\ numBatches = 1
    /\ callNo = 0
    /\ callPc = "idle"
    /\ callResult = NoErr
    /\ ctxDone = FALSE
    /\ task = [i \in Batches |-> IdleTask]
    /\ resultChan = <<>>
    /\ wg = 0
    /\ batchesOpen = FALSE
    /\ batchFrees = 0
    /\ delivered = [i \in Batches |-> 0]
    /\ clientOpen = FALSE
    /\ uaf = FALSE
    /\ tel = NoTelemetry
    /\ lg = NoDispatches
    /\ cl = NewHandles
    /\ encodeCalls = 0
    /\ bk = NewRetryer("100ms", "5s", 4)
    /\ cc = [c \in Callers |-> IdleCall]
    /\ \E c \in Configs :
          ctor = [config |-> c, given |-> c, env |-> NoEnv, pc |-> "new",
                  err |-> ""]

constructFrame == <<pushVars, backoffVars, concurrentVars, telemetryVars, comparisonVars, closingVars, uaf>>

\* if err := cfg.Validate(); err != nil { return nil, "invalid azuregigwarm config" }
ConstructValidate ==
    /\ ctor.pc = "new"
    /\ LET e == Validate(ctor.config)
       IN  ctor' = [ctor EXCEPT !.pc = IF e = "" THEN "validated" ELSE "failed",
                                !.err = e]
    /\ UNCHANGED <<constructFrame, clientOpen>>

\* newTelemetry returns an error: construction fails before the client is made
ConstructTelemetryFails ==
    /\ ctor.pc = "validated"
    /\ ctor' = [ctor EXCEPT !.pc = "failed", !.err = "telemetry"]
    /\ UNCHANGED <<constructFrame, clientOpen>>

\* cgogeneva.NewGenevaClient returns an error
ConstructClientFails ==
    /\ ctor.pc = "validated"
    /\ ctor' = [ctor EXCEPT !.pc = "failed", !.err = "client"]
    /\ UNCHANGED <<constructFrame, clientOpen>>

\* cgogeneva.NewGenevaClient returns the client; the exporter is returned
ConstructClientCreated ==
    /\ ctor.pc = "validated"
    /\ ctor' = [ctor EXCEPT !.pc = "created"]
    /\ clientOpen' = TRUE
    /\ UNCHANGED constructFrame

NextConstruct ==
    \/ ConstructValidate
    \/ ConstructTelemetryFails
    \/ ConstructClientFails
    \/ ConstructClientCreated

\* Construction of an exporter from every configuration
SpecConstruct == InitConstruct /\ [][NextConstruct]_vars

\* ------------------------------------------------- push-level telemetry
\* td.SpanCount() of the payloads pushed
MaxSpans == 2
SpanCounts == 0 .. MaxSpans

\* Callers push payloads concurrently; the counters are shared
InitTelemetry ==
    /\ cfg = [Enabled |-> TRUE, MaxRetries |-> DefaultMaxRetries]
    /\ numBatches = 1
    /\ callNo = 0
    /\ callPc = "idle"
    /\ callResult = NoErr
    /\ ctxDone = FALSE
    /\ task = [i \in Batches |-> IdleTask]
    /\ resultChan = <<>>
    /\ wg = 0
    /\ batchesOpen = FALSE
    /\ batchFrees = 0
    /\ delivered = [i \in Batches |-> 0]
    /\ clientOpen = TRUE
    /\ uaf = FALSE
    /\ encodeCalls = 0
    /\ bk = NewRetryer("100ms", "5s", 4)
    /\ cc = [c \in Callers |-> IdleCall]
    /\ ctor = CreatedExporter
    /\ tel = NoTelemetry
    /\ lg = NoDispatches
    /\ cl = NewHandles

telemetryFrame == <<pushVars, lifecycleVars, backoffVars, concurrentVars,
                    constructionVars, comparisonVars, closingVars>>

\* pushTraces starts: recordTracesReceived, recordSpansReceived(spanCount)
PushTracesReceived(c, spanCount) ==
    /\ tel.call[c].pc \in {"idle", "returned"}
    /\ tel.started < MaxCalls
    /\ tel' = [tel EXCEPT
                  !.started = @ + 1,
                  !.tracesReceived = @ + 1,
                  !.spansReceived = @ + spanCount,
                  !.call[c] = [pc |-> "received", spanCount |-> spanCount,
                               err |-> "", events |-> <<"traces_received">>]]
    /\ UNCHANGED telemetryFrame

\* an error return of pushTraces: recordSpansExportError(spanCount, error),
\* recordTracesExportError(error), return err
PushTracesFailedSpansOnly(c, error) ==
    tel' = [tel EXCEPT
              !.spansExportErrors = @ + tel.call[c].spanCount,
              !.call[c].pc = "returned",
              !.call[c].err = error]

PushTracesFailed(c, error) ==
    tel' = [tel EXCEPT
              !.spansExportErrors = @ + tel.call[c].spanCount,
              !.tracesExportErrors = @ + 1,
              !.call[c].pc = "returned",
              !.call[c].err = error,
              !.call[c].events = Append(@, "traces_export_error")]

\* req.MarshalProto() returns an error
PushTracesMarshalFailed(c) ==
    /\ tel.call[c].pc = "received"
    /\ PushTracesFailed(c, "marshal_failed")
    /\ UNCHANGED telemetryFrame

\* EncodeAndCompressSpans returns an error
PushTracesEncodingFailed(c) ==
    /\ tel.call[c].pc = "received"
    /\ PushTracesFailed(c, "encoding_failed")
    /\ UNCHANGED telemetryFrame

\* the payload is encoded and uploadBatchesWithRetry runs
PushTracesEncoded(c) ==
    /\ tel.call[c].pc = "received"
    /\ tel' = [tel EXCEPT !.call[c].pc = "dispatch"]
    /\ UNCHANGED telemetryFrame

\* uploadBatchesWithRetry returns an error
PushTracesUploadFailed(c) ==
    /\ tel.call[c].pc = "dispatch"
    /\ PushTracesFailed(c, "upload_failed")
    /\ UNCHANGED telemetryFrame

\* uploadBatchesWithRetry returns nil: recordSpansExported(spanCount),
\* recordTracesExported, return nil
PushTracesExported(c) ==
    /\ tel.call[c].pc = "dispatch"
    /\ tel' = [tel EXCEPT
                  !.spansExported = @ + tel.call[c].spanCount,
                  !.tracesExported = @ + 1,
                  !.call[c].pc = "returned",
                  !.call[c].events = Append(@, "traces_exported")]
    /\ UNCHANGED telemetryFrame

NextTelemetry ==
    \E c \in Callers :
        \/ \E spanCount \in SpanCounts : PushTracesReceived(c, spanCount)
        \/ PushTracesMarshalFailed(c)
        \/ PushTracesEncodingFailed(c)
        \/ PushTracesEncoded(c)
        \/ PushTracesUploadFailed(c)
        \/ PushTracesExported(c)

\* The push-level counters under concurrent pushTraces calls
SpecTelemetry == InitTelemetry /\ [][NextTelemetry]_vars

\* --------------------------------------------- logs and traces dispatch
\* the UploadBatch calls a batch goroutine has made
NumUploads(r) ==
    Cardinality({k \in 1 .. Len(r.ops) : r.ops[k][1] = "upload"})

\* uploadBatchWithRetry of the traces exporter, one step at a time.  ev is
\* what happens next to the goroutine: "run" (it is scheduled at the top of
\* an iteration), "ok" / "fail" (UploadBatch returns), "timer" /
\* "ctxDone" (the case the backoff select takes); ctx is ctx.Done() closed.
TracesExhausted(r, index, uploads) ==
    [r EXCEPT !.pc = "done",
              !.err = MaxRetriesExceeded(index, maxRetries + 1, uploads),
              !.events = Append(@, BatchExportError("max_retries_exceeded",
                                                    TRUE, maxRetries + 1))]

TracesRetryer(r, index, ev, ctx) ==
    IF ~cfg.Enabled
    THEN CASE r.pc = "ready" /\ ev = "run" ->
                  [r EXCEPT !.pc = "upload", !.ops = Append(@, <<"upload">>)]
           [] r.pc = "upload" /\ ev = "ok" ->
                  [r EXCEPT !.pc = "done",
                            !.events = Append(@, BatchExported(FALSE,
                                                               NoAttemptsTag))]
           [] r.pc = "upload" /\ ev = "fail" ->
                  [r EXCEPT !.pc = "done",
                            !.err = UploadFailed(index, NumUploads(r)),
                            !.events = Append(@, BatchExportError(
                                           "upload_failed", FALSE,
                                           NoAttemptsTag))]
           [] OTHER -> [r EXCEPT !.pc = "stuck"]
    ELSE CASE r.pc = "ready" /\ ev = "run" ->
                  IF ~LoopCond(r.attempt)
                  THEN TracesExhausted(r, index, NumUploads(r))
                  ELSE IF ctx
                  THEN [r EXCEPT !.pc = "done", !.err = Cancelled]
                  ELSE [r EXCEPT !.pc = "upload",
                                 !.ops = Append(@, <<"upload">>)]
           [] r.pc = "upload" /\ ev = "ok" ->
                  [r EXCEPT !.pc = "done",
                            !.events = Append(@, BatchExported(TRUE,
                                                       r.attempt + 1))]
           [] r.pc = "upload" /\ ev = "fail" ->
                  IF IsLastAttempt(r.attempt)
                  THEN TracesExhausted(r, index, NumUploads(r))
                  ELSE [r EXCEPT !.pc = "sleep"]
           [] r.pc = "sleep" /\ ev = "ctxDone" /\ ctx ->
                  [r EXCEPT !.pc = "done", !.err = Cancelled]
           [] r.pc = "sleep" /\ ev = "timer" ->
                  LET u == Unjittered(r.backoff, bk.multiplier2, bk.maxInterval)
                  IN  [r EXCEPT !.pc = "ready",
                                !.ops = Append(@, <<"sleep", r.backoff>>),
                                !.backoff = u + Jitter(u, "present"),
                                !.attempt = @ + 1]
           [] OTHER -> [r EXCEPT !.pc = "stuck"]

\* the goroutine of uploadBatchesWithRetry around it: a non-nil error is
\* sent on resultChan
TracesDispatchStep(d, index, ev, ctx) ==
    LET r == TracesRetryer(d.task[index], index, ev, ctx)
    IN  [d EXCEPT !.task[index] = r,
                  !.resultChan = IF r.pc = "done" /\ r.err.kind # "nil"
                                 THEN Append(@, [index |-> index, err |-> r.err])
                                 ELSE @]

\* wg.Wait() has returned: the first error received is returned
TracesCollect(d) ==
    IF \A i \in Active : d.task[i].pc = "done"
    THEN [d EXCEPT !.pc = "returned",
                   !.err = IF Len(d.resultChan) > 0 THEN d.resultChan[1].err
                                                    ELSE NoErr]
    ELSE [d EXCEPT !.pc = "stuck"]

\* The logs exporter.  Its errors carry the same data in another text:
\* fmt.Errorf("failed to upload logs batch %d to Geneva Warm: %w", index, err)
LogsUploadFailed(index, cause) ==
    [kind |-> "UploadFailed", signal |-> "logs", index |-> index,
     attempts |-> 0, cause |-> cause]

\* fmt.Errorf("failed to upload logs batch %d after %d attempts: %w", ...)
LogsMaxRetriesExceeded(index, attempts, cause) ==
    [kind |-> "MaxRetriesExceeded", signal |-> "logs", index |-> index,
     attempts |-> attempts, cause |-> cause]

\* maxRetries := e.cfg.BatchRetryConfig.MaxRetries; if maxRetries < 0 { = 3 }
LogsDefaultMaxRetries == 3

LogsMaxRetriesAsConfigured == cfg.MaxRetries
LogsMaxRetries ==
    IF cfg.MaxRetries < 0 THEN LogsDefaultMaxRetries ELSE cfg.MaxRetries

\* multiplier := ...Multiplier; if multiplier <= 0 { multiplier = 2.0 }
LogsMultiplier2 == IF bk.Multiplier2 <= 0 THEN 4 ELSE bk.Multiplier2

\* backoff = time.Duration(float64(backoff) * multiplier), clamped to
\* maxInterval, plus the jitter computed from time.Now()
LogsNextBackoff(backoff, clock) ==
    LET b == Trunc(backoff * LogsMultiplier2, 2)
        c == IF b > GetMaxInterval(bk.MaxInterval)
             THEN GetMaxInterval(bk.MaxInterval) ELSE b
    IN  c + Trunc(c * (TwiceFloat64frombits(clock) - 1), 10)

\* uploadBatchWithRetry of the logs exporter, one step at a time
LogsRetryer(r, index, ev, ctx) ==
    IF ~cfg.Enabled
    THEN CASE r.pc = "ready" /\ ev = "run" ->
                  [r EXCEPT !.pc = "upload", !.ops = Append(@, <<"upload">>)]
           [] r.pc = "upload" /\ ev = "ok" -> [r EXCEPT !.pc = "done"]
           [] r.pc = "upload" /\ ev = "fail" ->
                  [r EXCEPT !.pc = "done",
                            !.err = LogsUploadFailed(index, NumUploads(r))]
           [] OTHER -> [r EXCEPT !.pc = "stuck"]
    ELSE CASE r.pc = "ready" /\ ev = "run" ->
                  IF ~(r.attempt <= LogsMaxRetries)
                  THEN [r EXCEPT !.pc = "done",
                                 !.err = LogsMaxRetriesExceeded(index,
                                             LogsMaxRetries + 1, NumUploads(r))]
                  ELSE IF ctx
                  THEN [r EXCEPT !.pc = "done", !.err = Cancelled]
                  ELSE [r EXCEPT !.pc = "upload",
                                 !.ops = Append(@, <<"upload">>)]
           [] r.pc = "upload" /\ ev = "ok" -> [r EXCEPT !.pc = "done"]
           [] r.pc = "upload" /\ ev = "fail" ->
                  IF r.attempt = LogsMaxRetries
                  THEN [r EXCEPT !.pc = "done",
                                 !.err = LogsMaxRetriesExceeded(index,
                                             LogsMaxRetries + 1, NumUploads(r))]
                  ELSE [r EXCEPT !.pc = "sleep"]
           [] r.pc = "sleep" /\ ev = "ctxDone" /\ ctx ->
                  [r EXCEPT !.pc = "done", !.err = Cancelled]
           [] r.pc = "sleep" /\ ev = "timer" ->
                  [r EXCEPT !.pc = "ready",
                            !.ops = Append(@, <<"sleep", r.backoff>>),
                            !.backoff = LogsNextBackoff(r.backoff, "present"),
                            !.attempt = @ + 1]
           [] OTHER -> [r EXCEPT !.pc = "stuck"]

LogsDispatchStep(d, index, ev, ctx) ==
    LET r == LogsRetryer(d.task[index], index, ev, ctx)
    IN  [d EXCEPT !.task[index] = r,
                  !.resultChan = IF r.pc = "done" /\ r.err.kind # "nil"
                                 THEN Append(@, [index |-> index, err |-> r.err])
                                 ELSE @]

LogsCollect(d) ==
    IF \A i \in Active : d.task[i].pc = "done"
    THEN [d EXCEPT !.pc = "returned",
                   !.err = IF Len(d.resultChan) > 0 THEN d.resultChan[1].err
                                                    ELSE NoErr]
    ELSE [d EXCEPT !.pc = "stuck"]

\* the retry configurations the two exporters are compared on
ComparedRetryers ==
    {NewRetryer("100ms", "5s", 4), NewRetryer("1s", "abc", 0),
     NewRetryer("", "1s", 3)}

\* One exporter of each kind with the same configuration; nothing pushed yet
InitCompare ==
    /\ cfg \in [Enabled : BOOLEAN, MaxRetries : -1 .. MaxRetriesBound]
    /\ numBatches \in 0 .. NumBatches
    /\ callNo = 0
    /\ callPc = "idle"
    /\ callResult = NoErr
    /\ ctxDone = FALSE
    /\ task = [i \in Batches |-> IdleTask]
    /\ resultChan = <<>>
    /\ wg = 0
    /\ batchesOpen = FALSE
    /\ batchFrees = 0
    /\ delivered = [i \in Batches |-> 0]
    /\ clientOpen = TRUE
    /\ uaf = FALSE
    /\ encodeCalls = 0
    /\ bk \in ComparedRetryers
    /\ cc = [c \in Callers |-> IdleCall]
    /\ ctor = CreatedExporter
    /\ tel = NoTelemetry
    /\ lg = NoDispatches
    /\ cl = NewHandles

compareFrame == <<pushVars, lifecycleVars, backoffVars, concurrentVars,
                  constructionVars, telemetryVars, closingVars>>

\* the step of batch index on both exporters
CompareStep(index, ev) ==
    /\ lg' = [lg EXCEPT
                 !.traces = TracesDispatchStep(@, index, ev, lg.ctxDone),
                 !.logs = LogsDispatchStep(@, index, ev, lg.ctxDone)]
    /\ UNCHANGED compareFrame

\* Both exporters are pushed a payload of numBatches batches: each starts
\* one goroutine per batch, backoff := initialInterval
ComparePush ==
    /\ lg.traces.pc = "idle"
    /\ lg' = [lg EXCEPT
                 !.traces = [IdleDispatch EXCEPT
                    !.pc = "dispatch",
                    !.task = [i \in Batches |->
                        IF i \in Active
                        THEN [IdleRetryer EXCEPT
                                 !.pc = "ready",
                                 !.backoff = bk.initialInterval]
                        ELSE IdleRetryer]],
                 !.logs = [IdleDispatch EXCEPT
                    !.pc = "dispatch",
                    !.task = [i \in Batches |->
                        IF i \in Active
                        THEN [IdleRetryer EXCEPT
                                 !.pc = "ready",
                                 !.backoff =
                                     GetInitialInterval(bk.InitialInterval)]
                        ELSE IdleRetryer]]]
    /\ UNCHANGED compareFrame

\* the context of both calls is cancelled
CompareCancel ==
    /\ lg.traces.pc = "dispatch"
    /\ ~lg.ctxDone
    /\ lg' = [lg EXCEPT !.ctxDone = TRUE]
    /\ UNCHANGED compareFrame

CompareRun(index) ==
    /\ lg.traces.task[index].pc = "ready"
    /\ CompareStep(index, "run")

CompareUploadSucceeds(index) ==
    /\ lg.traces.task[index].pc = "upload"
    /\ CompareStep(index, "ok")

CompareUploadFails(index) ==
    /\ lg.traces.task[index].pc = "upload"
    /\ CompareStep(index, "fail")

CompareSleepCancelled(index) ==
    /\ lg.traces.task[index].pc = "sleep"
    /\ lg.ctxDone
    /\ CompareStep(index, "ctxDone")

CompareTimerFires(index) ==
    /\ lg.traces.task[index].pc = "sleep"
    /\ CompareStep(index, "timer")

\* both barriers are passed
CompareCollect ==
    /\ lg.traces.pc = "dispatch"
    /\ \A i \in Active : lg.traces.task[i].pc = "done"
    /\ lg' = [lg EXCEPT !.traces = TracesCollect(@), !.logs = LogsCollect(@)]
    /\ UNCHANGED compareFrame

NextCompare ==
    \/ ComparePush
    \/ CompareCancel
    \/ CompareCollect
    \/ \E index \in Batches :
          \/ CompareRun(index)
          \/ CompareUploadSucceeds(index)
          \/ CompareUploadFails(index)
          \/ CompareSleepCancelled(index)
          \/ CompareTimerFires(index)

\* The logs and the traces dispatch driven by the same inputs
SpecCompare == InitCompare /\ [][NextCompare]_vars

\* ------------------------------------------------------ sequential close
\* operations made on the client and its BatchSet
MaxOps == 6

ClientIsClosed == "geneva client is closed"

\* A created exporter; one goroutine uses and closes its client
InitClose ==
    /\ cfg = [Enabled |-> TRUE, MaxRetries |-> DefaultMaxRetries]
    /\ numBatches \in 1 .. NumBatches
    /\ callNo = 0
    /\ callPc = "idle"
    /\ callResult = NoErr
    /\ ctxDone = FALSE
    /\ task = [i \in Batches |-> IdleTask]
    /\ resultChan = <<>>
    /\ wg = 0
    /\ batchesOpen = FALSE
    /\ batchFrees = 0
    /\ delivered = [i \in Batches |-> 0]
    /\ clientOpen = TRUE
    /\ uaf = FALSE
    /\ encodeCalls = 0
    /\ bk = NewRetryer("100ms", "5s", 4)
    /\ cc = [c \in Callers |-> IdleCall]
    /\ ctor = CreatedExporter
    /\ tel = NoTelemetry
    /\ lg = NoDispatches
    /\ cl = NewHandles

closeFrame == <<pushVars, lifecycleVars, backoffVars, concurrentVars,
                constructionVars, telemetryVars, comparisonVars>>

\* the native library is handed the client handle: a fault if it was freed
ClientNative(h) ==
    [h EXCEPT !.clientCalls = @ + 1,
              !.faults = IF h.clientFrees > 0 THEN @ + 1 ELSE @]

\* GenevaClient.Close: if c.handle != nil { free(c.handle); c.handle = nil }
ClientCloseKeepsHandle(h) ==
    [ClientNative(h) EXCEPT !.clientFrees = @ + 1]

ClientClose(h) ==
    IF h.clientHandle
    THEN [ClientNative(h) EXCEPT !.clientFrees = @ + 1,
                                 !.clientHandle = FALSE]
    ELSE h

\* c.Close() called directly
CloseClient ==
    /\ cl.ops < MaxOps
    /\ cl' = [ClientClose(cl) EXCEPT
                 !.closes = @ + 1, !.ops = @ + 1,
                 !.last = [op |-> "close", err |-> "", len |-> 0]]
    /\ UNCHANGED closeFrame

\* tracesExporter.shutdown: if e.client != nil { e.client.Close() }; return nil
CloseShutdown ==
    /\ cl.ops < MaxOps
    /\ cl' = [ClientClose(cl) EXCEPT
                 !.closes = @ + 1, !.ops = @ + 1,
                 !.last = [op |-> "shutdown", err |-> "", len |-> 0]]
    /\ UNCHANGED closeFrame

\* EncodeAndCompressSpans(data): a nil client handle and empty data are
\* refused before the native call; the native call returns a BatchSet or an
\* error.  The caller has closed the BatchSet of its previous call.
CloseEncode(data, ok) ==
    /\ cl.ops < MaxOps
    /\ cl.batches # "open"
    /\ cl' =
         IF ~cl.clientHandle
         THEN [cl EXCEPT !.ops = @ + 1,
                  !.last = [op |-> "encode", err |-> ClientIsClosed, len |-> 0]]
         ELSE IF data = 0
         THEN [cl EXCEPT !.ops = @ + 1,
                  !.last = [op |-> "encode", err |-> "empty span data",
                            len |-> 0]]
         ELSE IF ok
         THEN [ClientNative(cl) EXCEPT !.ops = @ + 1,
                  !.batches = "open", !.batchesFrees = 0,
                  !.last = [op |-> "encode", err |-> "", len |-> 0]]
         ELSE [ClientNative(cl) EXCEPT !.ops = @ + 1,
                  !.last = [op |-> "encode", err |-> "native", len |-> 0]]
    /\ UNCHANGED closeFrame

\* UploadBatch(b, idx): a nil client handle, then a nil BatchSet or BatchSet
\* handle, are refused before the native call
CloseUpload(ok) ==
    /\ cl.ops < MaxOps
    /\ cl' =
         IF ~cl.clientHandle
         THEN [cl EXCEPT !.ops = @ + 1,
                  !.last = [op |-> "upload", err |-> ClientIsClosed, len |-> 0]]
         ELSE IF cl.batches # "open"
         THEN [cl EXCEPT !.ops = @ + 1,
                  !.last = [op |-> "upload", err |-> "nil batches", len |-> 0]]
         ELSE [ClientNative(cl) EXCEPT !.ops = @ + 1,
                  !.faults = IF cl.batchesFrees > 0 \/ cl.clientFrees > 0
                             THEN cl.faults + 1 ELSE cl.faults,
                  !.last = [op |-> "upload",
                            err |-> IF ok THEN "" ELSE "geneva upload failed",
                            len |-> 0]]
    /\ UNCHANGED closeFrame

\* EncodedBatches.Len: 0 for a nil BatchSet or handle, else the native count
CloseLen ==
    /\ cl.ops < MaxOps
    /\ cl' =
         IF cl.batches # "open"
         THEN [cl EXCEPT !.ops = @ + 1,
                  !.last = [op |-> "len", err |-> "", len |-> 0]]
         ELSE [cl EXCEPT !.ops = @ + 1,
                  !.faults = IF cl.batchesFrees > 0 THEN @ + 1 ELSE @,
                  !.last = [op |-> "len", err |-> "", len |-> numBatches]]
    /\ UNCHANGED closeFrame

\* EncodedBatches.Close: if b != nil && b.handle != nil { free; handle = nil }
CloseBatches ==
    /\ cl.ops < MaxOps
    /\ cl' =
         IF cl.batches = "open"
         THEN [cl EXCEPT !.ops = @ + 1,
                  !.faults = IF cl.batchesFrees > 0 THEN @ + 1 ELSE @,
                  !.batchesFrees = @ + 1, !.batches = "closed",
                  !.last = [op |-> "close batches", err |-> "", len |-> 0]]
         ELSE [cl EXCEPT !.ops = @ + 1,
                  !.last = [op |-> "close batches", err |-> "", len |-> 0]]
    /\ UNCHANGED closeFrame

NextClose ==
    \/ CloseClient
    \/ CloseShutdown
    \/ \E data \in {0, 1}, ok \in BOOLEAN : CloseEncode(data, ok)
    \/ \E ok \in BOOLEAN : CloseUpload(ok)
    \/ CloseLen
    \/ CloseBatches

\* Encode, upload, Len and the close operations called one after another
SpecClose == InitClose /\ [][NextClose]_vars

\* ----------------------------------------------------------- the factory
\* createTracesExporter is about to run on some Config in some environment
InitFactory ==
    /\ cfg = [Enabled |-> TRUE, MaxRetries |-> DefaultMaxRetries]
    /\ numBatches = 1
    /\ callNo = 0
    /\ callPc = "idle"
    /\ callResult = NoErr
    /\ ctxDone = FALSE
    /\ task = [i \in Batches |-> IdleTask]
    /\ resultChan = <<>>
    /\ wg = 0
    /\ batchesOpen = FALSE
    /\ batchFrees = 0
    /\ delivered = [i \in Batches |-> 0]
    /\ clientOpen = FALSE
    /\ uaf = FALSE
    /\ encodeCalls = 0
    /\ bk = NewRetryer("100ms", "5s", 4)
    /\ cc = [c \in Callers |-> IdleCall]
    /\ tel = NoTelemetry
    /\ lg = NoDispatches
    /\ cl = NewHandles
    /\ \E c \in Configs, e \in Envs :
          ctor = [config |-> c, given |-> c, env |-> e, pc |-> "given",
                  err |-> ""]

\* overrideConfigFromEnv: RoleName and RoleInstance are replaced by the
\* variables that are non-empty
OverrideAlways(c, env) ==
    [c EXCEPT !.RoleName = env.GENEVA_ROLE_NAME,
              !.RoleInstance = env.GENEVA_ROLE_INSTANCE]

overrideConfigFromEnv(c, env) ==
    [c EXCEPT !.RoleName = IF env.GENEVA_ROLE_NAME # ""
                           THEN env.GENEVA_ROLE_NAME ELSE @,
              !.RoleInstance = IF env.GENEVA_ROLE_INSTANCE # ""
                               THEN env.GENEVA_ROLE_INSTANCE ELSE @]

\* createTracesExporter: overrideConfigFromEnv(cfg, set.Logger), then
\* newTracesExporter(ctx, set, cfg)
FactoryOverride ==
    /\ ctor.pc = "given"
    /\ ctor' = [ctor EXCEPT !.config = overrideConfigFromEnv(@, ctor.env),
                            !.pc = "new"]
    /\ UNCHANGED <<constructFrame, clientOpen>>

NextFactory ==
    \/ FactoryOverride
    \/ ConstructValidate
    \/ ConstructTelemetryFails
    \/ ConstructClientFails
    \/ ConstructClientCreated

\* A traces exporter made by the factory from every configuration and
\* environment
SpecFactory == InitFactory /\ [][NextFactory]_vars

\* ---------------------------------------------------------------- claims
\* the step stays inside the current push call
SameCall == callNo' = callNo

\* C1: within one push call, once an upload of batch i has returned success no
\* further upload of batch i is issued, whatever its siblings are doing.
C1_NoUploadAfterSuccess ==
    [][\A i \in Batches :
          (task[i].oks > 0 /\ SameCall) => task'[i].uploads = task[i].uploads]_vars

\* batch i has succeeded while a sibling is in flight on a retry attempt
C1_Witness ==
    \E i, j \in Active :
        /\ i # j
        /\ task[i].pc = "done" /\ task[i].oks = 1
        /\ task[j].pc = "upload" /\ task[j].attempt > 0

\* C2 as stated: a batch the backend accepted in an earlier push call is not
\* uploaded again in a later push call for the same payload.
C2_NoReuploadInLaterCall ==
    [][\A i \in Batches :
          (delivered[i] > task[i].oks /\ SameCall)
              => task'[i].uploads = task[i].uploads]_vars

\* C2 amended: success is remembered only inside one push call.  Every push
\* call that got past encoding and has returned has uploaded every batch of the
\* payload at least once, unless it ran with retry enabled and was cancelled;
\* this includes batches the backend accepted in an earlier call.
C2_EveryCallUploadsEveryBatch ==
    (/\ callPc = "returned"
     /\ callResult.kind # "EncodingFailed"
     /\ (cfg.Enabled => ~ctxDone))
        => \A i \in Active : task[i].uploads >= 1

\* the second call has uploaded, and the backend accepted, a batch a second time
C2_Witness ==
    /\ callNo = 2
    /\ callPc = "returned"
    /\ \E i \in Active : delivered[i] = 2 /\ task[i].oks = 1

\* C3: the number of upload attempts made so far for a batch is at most
\* maxRetries+1 with retry enabled and at most 1 with retry disabled.
C3_AttemptsBounded ==
    \A i \in Batches :
        IF cfg.Enabled THEN task[i].uploads <= maxRetries + 1
                       ELSE task[i].uploads <= 1

\* a batch used its whole budget, under cancellation
C3_Witness ==
    /\ cfg.Enabled
    /\ maxRetries >= 1
    /\ ctxDone
    /\ \E i \in Active : task[i].uploads = maxRetries + 1

\* C4: with retry enabled, a finished batch all of whose uploads failed and
\* that was not cancelled made exactly maxRetries+1 attempts, slept exactly
\* maxRetries times and returned MaxRetriesExceeded with its index,
\* attempts = maxRetries+1 and the error of its last upload as cause.
C4_AlwaysFailingExhausts ==
    \A i \in Batches :
        (/\ cfg.Enabled
         /\ task[i].pc = "done"
         /\ task[i].oks = 0
         /\ task[i].result.kind # "Cancelled")
            => /\ task[i].uploads = maxRetries + 1
               /\ task[i].fails = maxRetries + 1
               /\ task[i].sleeps = maxRetries
               /\ task[i].result =
                      MaxRetriesExceeded(i, maxRetries + 1, task[i].uploads)

\* a batch exhausted a budget of at least one retry with no cancellation
C4_Witness ==
    /\ cfg.Enabled
    /\ maxRetries >= 1
    /\ ~ctxDone
    /\ \E i \in Active :
          task[i].pc = "done" /\ task[i].result.kind = "MaxRetriesExceeded"

\* C5: with retry enabled, a finished batch that was not cancelled and had
\* K < maxRetries+1 failed uploads returned success after exactly K+1 upload
\* attempts and exactly K sleeps.
C5_FailKThenSucceed ==
    \A i \in Batches :
        (/\ cfg.Enabled
         /\ task[i].pc = "done"
         /\ task[i].result.kind # "Cancelled"
         /\ task[i].fails < maxRetries + 1)
            => /\ task[i].result = NoErr
               /\ task[i].oks = 1
               /\ task[i].uploads = task[i].fails + 1
               /\ task[i].sleeps = task[i].fails

\* a batch failed on every attempt but its last allowed one, which succeeded
C5_Witness ==
    /\ cfg.Enabled
    /\ maxRetries >= 1
    /\ ~ctxDone
    /\ \E i \in Active :
          /\ task[i].pc = "done"
          /\ task[i].oks = 1
          /\ task[i].fails = maxRetries

\* C6: with retry disabled a batch never sleeps and is uploaded once; when it
\* has finished, a failed upload gave UploadFailed with the batch index and the
\* upload's error, a successful one gave success.
C6_DisabledSingleAttempt ==
    ~cfg.Enabled =>
        \A i \in Batches :
            /\ task[i].sleeps = 0
            /\ task[i].uploads <= 1
            /\ task[i].pc = "done" =>
                  /\ task[i].uploads = 1
                  /\ \/ (task[i].fails = 1 /\ task[i].oks = 0
                           /\ task[i].result = UploadFailed(i, 1))
                     \/ (task[i].fails = 0 /\ task[i].oks = 1
                           /\ task[i].result = NoErr)

\* with retry disabled, one batch failed and another succeeded
C6_Witness ==
    /\ ~cfg.Enabled
    /\ \E i, j \in Active :
          /\ task[i].result.kind = "UploadFailed"
          /\ task[j].pc = "done" /\ task[j].oks = 1

\* C7: with retry enabled, a batch at the top of its loop while the signal is
\* set can only return Cancelled, leaving its upload and sleep counts as they
\* are, and a batch that returned Cancelled does nothing more in that call.
C7_CancelCheckedBeforeEveryAttempt ==
    [][\A i \in Batches :
          /\ (cfg.Enabled /\ task[i].pc = "ready" /\ ctxDone /\ SameCall)
                => \/ task'[i] = task[i]
                   \/ task'[i] = [task[i] EXCEPT !.pc = "done",
                                                 !.result = Cancelled]
          /\ (task[i].result = Cancelled /\ SameCall)
                => task'[i] = task[i]]_vars

\* a batch was cancelled at the check before a retry attempt
C7_Witness ==
    \E i \in Active :
        /\ task[i].pc = "done"
        /\ task[i].result = Cancelled
        /\ task[i].attempt >= 1
        /\ task[i].sleeps = task[i].attempt

\* C8 as stated: once the signal is set no upload is issued, with batch retry
\* enabled or disabled.
C8_NoUploadOnceCancelled ==
    [][\A i \in Batches :
          (ctxDone /\ SameCall) => task'[i].uploads = task[i].uploads]_vars

\* C8 amended: the signal is polled before every upload only when batch retry
\* is enabled; with retry disabled the single upload of a batch is issued
\* without polling, so an upload issued after the signal was set belongs to a
\* call with retry disabled, and such a call never yields Cancelled.
C8_PolledOnlyWhenRetryEnabled ==
    /\ [][\A i \in Batches :
             (ctxDone /\ SameCall /\ task'[i].uploads # task[i].uploads)
                 => (~cfg.Enabled /\ task[i].pc = "ready" /\ task[i].uploads = 0)]_vars
    /\ [](~cfg.Enabled => \A i \in Batches : task[i].result.kind # "Cancelled")

\* retry disabled, signal set, every batch of a two-batch call still uploaded
C8_Witness ==
    /\ ~cfg.Enabled
    /\ ctxDone
    /\ numBatches >= 2
    /\ callPc = "returned"
    /\ \A i \in Active : task[i].uploads = 1

\* C9: a batch in its backoff select while the signal is set either returns
\* Cancelled or, when the timer wins the select, goes back to the top of the
\* loop, from where it can only return Cancelled; no upload is issued.
C9_CancelDuringSleep ==
    [][\A i \in Batches :
          /\ (task[i].pc = "sleep" /\ ctxDone /\ SameCall)
                => \/ task'[i] = task[i]
                   \/ task'[i] = [task[i] EXCEPT !.pc = "done",
                                                 !.result = Cancelled]
                   \/ task'[i] = [task[i] EXCEPT !.pc = "ready",
                                                 !.attempt = @ + 1]
          /\ (task[i].pc = "ready" /\ task[i].attempt > 0 /\ ctxDone /\ SameCall)
                => /\ task'[i].uploads = task[i].uploads
                   /\ task'[i].sleeps = task[i].sleeps
                   /\ task'[i].pc \in {"ready", "done"}
                   /\ task'[i].pc = "done" => task'[i].result = Cancelled]_vars

\* a batch returned Cancelled out of its backoff select
C9_Witness ==
    \E i \in Active :
        /\ task[i].pc = "done"
        /\ task[i].result = Cancelled
        /\ task[i].sleeps = task[i].attempt + 1

\* C10: when push has returned, every batch goroutine of the call has finished;
\* none is still at an attempt, in an upload or in a sleep.
C10_BarrierJoinsEveryTask ==
    callPc = "returned" =>
        /\ wg = 0
        /\ \A i \in Batches : task[i].pc = IF i \in Active /\ callResult.kind # "EncodingFailed"
                                          THEN "done" ELSE "idle"

\* a cancelled call returned with all of its batches finished
C10_Witness ==
    /\ callPc = "returned"
    /\ ctxDone
    /\ numBatches >= 2
    /\ \E i \in Active : task[i].result = Cancelled
    /\ \A i \in Active : task[i].pc = "done"


\* the last push call got past encoding and has returned from dispatch
DispatchReturned == callPc = "returned" /\ callResult.stage \notin {"marshal", "encode"}

\* the batches of the call whose task ended with an error
FailedTasks == {i \in Active : task[i].result.kind # "nil"}

\* C11: dispatch returns an error iff some batch task returned one; the failed
\* count it logs is the number of such tasks, each collected once; the error it
\* returns is the error of one of them.
C11_DispatchAggregates ==
    DispatchReturned =>
        /\ (callResult.kind # "nil") <=> (FailedTasks # {})
        /\ Len(failedBatches) = Cardinality(FailedTasks)
        /\ \A k \in 1 .. Len(failedBatches) :
              /\ failedBatches[k].index \in FailedTasks
              /\ failedBatches[k].err = task[failedBatches[k].index].result
        /\ (callResult.kind # "nil") =>
              \E i \in FailedTasks : callResult = task[i].result

\* two batches failed and the error returned is not the one of the
\* failed batch with the lowest index
C11_Witness ==
    /\ DispatchReturned
    /\ \E i, j \in FailedTasks :
          /\ i < j
          /\ callResult = task[j].result
          /\ callResult # task[i].result


\* UploadBatch calls issued by the current push call, over all batch indices
RECURSIVE SumUploads(_)
SumUploads(n) == IF n = 0 THEN 0 ELSE task[n - 1].uploads + SumUploads(n - 1)

TotalUploads == SumUploads(NumBatches)

\* C12: for every N >= 0, when no upload of the call failed and no batch was
\* cancelled, dispatch returns success, exactly N uploads were issued, one per
\* batch, and no batch slept or went to a second attempt.
C12_AllSucceedFirstTry ==
    (/\ DispatchReturned
     /\ \A i \in Active : task[i].fails = 0 /\ task[i].result.kind # "Cancelled")
        => /\ callResult = NoErr
           /\ TotalUploads = numBatches
           /\ \A i \in Active :
                 /\ task[i].uploads = 1
                 /\ task[i].oks = 1
                 /\ task[i].sleeps = 0
                 /\ task[i].attempt = 0

\* a call with retry enabled and at least two batches, all accepted at once
C12_Witness ==
    /\ DispatchReturned
    /\ cfg.Enabled
    /\ numBatches >= 2
    /\ callResult = NoErr
    /\ \A i \in Active : task[i].fails = 0 /\ task[i].oks = 1


\* C13: failure isolation.  A step inside a push call changes the state of at
\* most one batch, so what happens to batch i never moves batch j; and when a
\* dispatch with retry enabled has returned with every batch accepted after at
\* most one failure, it returned success, the batches that failed once made
\* exactly 2 attempts and every other batch exactly 1.
C13_FailureIsolation ==
    /\ [][SameCall =>
             \A i, j \in Batches :
                 (i # j /\ task'[i] # task[i]) => task'[j] = task[j]]_vars
    /\ []((/\ DispatchReturned
           /\ cfg.Enabled
           /\ \A i \in Active : task[i].oks = 1 /\ task[i].fails <= 1)
              => /\ callResult = NoErr
                 /\ \A i \in Active :
                       /\ task[i].uploads = 1 + task[i].fails
                       /\ task[i].sleeps = task[i].fails)

\* a call returned success with one batch retried once and another not at all
C13_Witness ==
    /\ DispatchReturned
    /\ ~ctxDone
    /\ callResult = NoErr
    /\ \E i, j \in Active :
          /\ task[i].uploads = 2 /\ task[i].fails = 1 /\ task[i].oks = 1
          /\ task[j].uploads = 1 /\ task[j].fails = 0 /\ task[j].oks = 1


\* UploadBatch calls of batch i that were issued and have not returned
InFlight(i) == task[i].uploads - task[i].oks - task[i].fails

\* C14: while a dispatch runs there is exactly one goroutine per batch index
\* 0..N-1 and none for any other index, wg counts the ones still running, and
\* a batch index never has more than one upload in flight.
C14_OneTaskPerBatch ==
    /\ \A i \in Batches :
          /\ InFlight(i) \in {0, 1}
          /\ InFlight(i) = 1 <=> task[i].pc = "upload"
    /\ callPc = "dispatch" =>
          /\ {i \in Batches : task[i].pc # "idle"} = Active
          /\ wg = Cardinality({i \in Active : task[i].pc # "done"})

\* two different batches of one call have their uploads in flight together
C14_Witness ==
    /\ callPc = "dispatch"
    /\ \E i, j \in Active :
          /\ i # j
          /\ task[i].pc = "upload" /\ InFlight(i) = 1
          /\ task[j].pc = "upload" /\ InFlight(j) = 1


\* C15: when the batch retryer has returned for a batch, exactly one terminal
\* telemetry event has been recorded for it, batch exported on success and
\* batch export-error otherwise, carrying the number of attempts made and
\* whether retry was enabled.
C15_OneTerminalEventPerBatch ==
    \A i \in Batches :
        task[i].pc = "done" =>
            /\ Len(task[i].events) = 1
            /\ task[i].events[1].name =
                   IF task[i].result.kind = "nil" THEN "batch_exported"
                                                  ELSE "batch_export_error"
            /\ task[i].events[1].retry_enabled = cfg.Enabled
            /\ task[i].events[1].attempts = task[i].uploads


\* C16: while a push call dispatches, its BatchSet is held and has not been
\* freed; when the call has returned the set is released and was freed exactly
\* once if one was obtained, and never on the marshal-failure and
\* encode-failure paths, where there is no set and nothing is released.
C16_BatchSetReleasedOnce ==
    /\ callPc = "dispatch" => (batchesOpen /\ batchFrees = 0)
    /\ callPc = "returned" =>
          /\ ~batchesOpen
          /\ batchFrees = IF DispatchReturned THEN 1 ELSE 0

\* a cancelled call has returned an error and freed its BatchSet once
C16_Witness ==
    /\ DispatchReturned
    /\ callResult = Cancelled
    /\ ~batchesOpen
    /\ batchFrees = 1


\* C17 as stated: once the client is shut down it stays so, and every push call
\* begun after that returns at once with ClientClosed and starts no batch task.
C17_PushAfterShutdownIsClientClosed ==
    [][/\ ~clientOpen => ~clientOpen'
       /\ (~clientOpen /\ callNo' = callNo + 1)
             => /\ callPc' = "returned"
                /\ callResult' = ClientClosed
                /\ \A i \in Batches : task'[i] = IdleTask]_vars

\* C17 amended: once the client is shut down it stays so, and every push call
\* begun after that returns at once without starting a batch task, issuing an
\* upload or sleeping; its error is ClientClosed (wrapped by the encode step),
\* or the marshal error when marshalling, which runs first, fails.
C17_PushAfterShutdownFailsAtOnce ==
    [][/\ ~clientOpen => ~clientOpen'
       /\ (~clientOpen /\ callNo' = callNo + 1)
             => /\ callPc' = "returned"
                /\ callResult' \in {ClientClosed, EncodingFailed("marshal")}
                /\ \A i \in Batches : task'[i] = IdleTask
                /\ ~batchesOpen' /\ batchFrees' = 0]_vars

\* a push call made on the closed client has returned ClientClosed
C17_Witness ==
    /\ ~clientOpen
    /\ callPc = "returned"
    /\ callResult = ClientClosed
    /\ \A i \in Batches : task[i] = IdleTask

\* C18: the client handle is never freed while an upload is using it: whenever
\* the client is closed, no upload that entered the native call is in flight.
C18_NoFreeWhileInUse ==
    ~clientOpen => \A i \in Batches : ~(task[i].pc = "upload" /\ task[i].native)


\* C19: every sleep of a batch (the first, equal to initialInterval, and every
\* later one after multiplier, clamp and jitter) is at most maxInterval.
C19_SleepNeverExceedsMaxInterval ==
    \A k \in 1 .. Len(bk.sleeps) : bk.sleeps[k] <= bk.maxInterval

\* C20 as stated: the clamped, un-jittered value of every advance is at most
\* maxInterval and at least the un-jittered value of the advance before it.
C20_UnjitteredMonotoneAndBounded ==
    \A k \in 1 .. Len(bk.unjittered) :
        /\ bk.unjittered[k] <= bk.maxInterval
        /\ k > 1 => bk.unjittered[k] >= bk.unjittered[k - 1]

\* C20 amended: the un-jittered value of every advance is at most maxInterval;
\* it is at least that of the advance before it when the intervals are not
\* negative and the multiplier is at least 10/9, so that a -10% jitter cannot
\* shrink the next product.
C20_UnjitteredBoundedMonotoneIfGrowing ==
    \A k \in 1 .. Len(bk.unjittered) :
        /\ bk.unjittered[k] <= bk.maxInterval
        /\ (k > 1 /\ 9 * bk.multiplier2 >= 20
                  /\ bk.initialInterval >= 0 /\ bk.maxInterval >= 0)
              => bk.unjittered[k] >= bk.unjittered[k - 1]

\* a growing sequence that reached the clamp after a -10% jitter
C20_Witness ==
    /\ Len(bk.unjittered) >= 3
    /\ 9 * bk.multiplier2 >= 20
    /\ bk.unjittered[1] < bk.unjittered[2]
    /\ bk.unjittered[3] = bk.maxInterval
    /\ bk.sleeps[2] < bk.unjittered[1]


\* C21: every sleep that follows a backoff advance is not negative and lies
\* within 90% .. 110% of the clamped, un-jittered value of that advance.
C21_NextSleepWithinTenPercent ==
    \A k \in 2 .. Len(bk.sleeps) :
        /\ bk.sleeps[k] >= 0
        /\ 9 * bk.unjittered[k - 1] <= 10 * bk.sleeps[k]
        /\ 10 * bk.sleeps[k] <= 11 * bk.unjittered[k - 1]


\* C22: malformed retry settings are replaced, never rejected: a multiplier
\* <= 0 acts as 2.0 (the first advance doubles the first sleep, up to the
\* clamp), an empty or unparsable initial interval as 100ms, an empty or
\* unparsable max interval as 5s; well-formed values are used as written.
C22_MalformedSettingsFallBack ==
    LET wellFormed == [str \in {"-1s", "50ms", "100ms", "1s", "5s", "10s"} |->
                         CASE str = "-1s"   -> -1000
                           [] str = "50ms"  -> 50
                           [] str = "100ms" -> 100
                           [] str = "1s"    -> 1000
                           [] str = "5s"    -> 5000
                           [] str = "10s"   -> 10000]
        first == IF bk.InitialInterval \in DOMAIN wellFormed
                 THEN wellFormed[bk.InitialInterval] ELSE 100
        max   == IF bk.MaxInterval \in DOMAIN wellFormed
                 THEN wellFormed[bk.MaxInterval] ELSE 5000
        mult2 == IF bk.Multiplier2 <= 0 THEN 4 ELSE bk.Multiplier2
    IN  /\ bk.initialInterval = first
        /\ bk.maxInterval = max
        /\ bk.multiplier2 = mult2
        /\ Len(bk.sleeps) >= 1 => bk.sleeps[1] = first
        /\ Len(bk.unjittered) >= 1 =>
              bk.unjittered[1] = IF Trunc(first * mult2, 2) > max THEN max
                                 ELSE Trunc(first * mult2, 2)

\* multiplier 0, unparsable initial interval and empty max interval: the batch
\* slept 100ms and the first advance doubled it
C22_Witness ==
    /\ bk.Multiplier2 = 0
    /\ bk.InitialInterval = "abc"
    /\ bk.MaxInterval = ""
    /\ Len(bk.sleeps) >= 2
    /\ bk.sleeps[1] = 100
    /\ bk.unjittered[1] = 200
    /\ bk.maxInterval = 5000


\* NewDefaultBatchRetryConfig: {enabled, maxRetries 3, 100ms, 5s, 2.0}
DefaultConfig ==
    /\ cfg = [Enabled |-> TRUE, MaxRetries |-> 3]
    /\ bk.InitialInterval = "100ms"
    /\ bk.MaxInterval = "5s"
    /\ bk.Multiplier2 = 4

PresentDayClock == \A k \in 1 .. Len(bk.clocks) : bk.clocks[k] = "present"

C24_EncodingFailureIsTerminal ==
    /\ encodeCalls <= 1
    /\ callResult.kind = "EncodingFailed" =>
          /\ callPc = "returned"
          /\ \A i \in Batches : task[i] = IdleTask
          /\ TotalUploads = 0
          /\ resultChan = <<>> /\ wg = 0
          /\ encodeCalls = (IF callResult.stage = "encode" THEN 1 ELSE 0)

\* a second push call of the payload failed in the encode step
C24_Witness ==
    /\ callNo = 2
    /\ callPc = "returned"
    /\ callResult = EncodingFailed("encode")
    /\ encodeCalls = 1


C26_OnlyExhaustionOrCancellationEscapes ==
    (DispatchReturned /\ callResult # NoErr)
        => callResult.kind \in {"MaxRetriesExceeded", "Cancelled"}

\* C26 amended: with batch retry enabled every upload-phase error a push call
\* returns is MaxRetriesExceeded or Cancelled; with batch retry disabled it is
\* the UploadFailed error of the single attempt.
C26_SingleFailureEscapesOnlyWhenDisabled ==
    (DispatchReturned /\ callResult # NoErr) =>
        IF cfg.Enabled
        THEN callResult.kind \in {"MaxRetriesExceeded", "Cancelled"}
        ELSE callResult.kind = "UploadFailed" /\ callResult.cause = 1

\* retry enabled: a batch failed twice, the first failure was absorbed and the
\* call returned the exhaustion error
C26_Witness ==
    /\ DispatchReturned
    /\ cfg.Enabled
    /\ callResult.kind = "MaxRetriesExceeded"
    /\ callResult.attempts = 2
    /\ \E i \in Active : task[i].fails = 2 /\ task[i].result = callResult


\* the signal is set while batch i of a retry-enabled call is in an upload
\* attempt that is not its last, in a backoff sleep, or between the two
CancelPending(i) ==
    /\ ctxDone
    /\ cfg.Enabled
    /\ \/ task[i].pc \in {"sleep", "ready"}
       \/ task[i].pc = "upload" /\ task[i].attempt < maxRetries

\* the signal is set while batch i of a retry-enabled call is in any upload
\* attempt, in a backoff sleep, or between the two
CancelPendingAnyAttempt(i) ==
    /\ ctxDone
    /\ cfg.Enabled
    /\ task[i].pc \in {"sleep", "ready", "upload"}

\* the signal is set while batch i is in its last allowed attempt
CancelInFinalAttempt(i) ==
    /\ ctxDone
    /\ cfg.Enabled
    /\ task[i].pc = "upload"
    /\ task[i].attempt = maxRetries

\* C27 as stated: once the signal is set while a batch is in an upload attempt
\* (its last one included) or a sleep, the batch ends in success or Cancelled,
\* never in MaxRetriesExceeded.
C27_CancelNeverEndsInExhaustion ==
    [][\A i \in Batches :
          (CancelPendingAnyAttempt(i) /\ SameCall)
             => \/ CancelPendingAnyAttempt(i)'
                \/ /\ task'[i].pc = "done"
                   /\ task'[i].result = Cancelled \/ task'[i].oks = 1]_vars

\* C27 amended: once the signal is set while a batch is in a sleep or in an
\* upload attempt that is not its last, the batch ends in success or Cancelled,
\* never in MaxRetriesExceeded; a batch whose last allowed attempt is in
\* flight ends in success or MaxRetriesExceeded, never in Cancelled.
C27_CancelBeatsExhaustionBeforeFinalAttempt ==
    [][\A i \in Batches :
          /\ (CancelPending(i) /\ SameCall)
                => \/ CancelPending(i)'
                   \/ /\ task'[i].pc = "done"
                      /\ task'[i].result = Cancelled \/ task'[i].oks = 1
          /\ (CancelInFinalAttempt(i) /\ SameCall)
                => \/ task'[i] = task[i]
                   \/ /\ task'[i].pc = "done"
                      /\ \/ task'[i].oks = 1
                         \/ task'[i].result.kind = "MaxRetriesExceeded"]_vars

\* the signal was set after a failed attempt that was not the last one, and
\* the batch returned Cancelled with retries left
C27_Witness ==
    /\ ctxDone
    /\ cfg.Enabled
    /\ \E i \in Active :
          /\ task[i].pc = "done"
          /\ task[i].result = Cancelled
          /\ task[i].fails >= 1
          /\ task[i].uploads <= maxRetries


\* C28: setting the signal changes no batch task; an upload in flight while
\* the signal is set completes on its own: its success makes the batch's
\* outcome success, its failure is an ordinary failed attempt and never turns
\* into Cancelled at that step; after it, that batch issues no further upload.
C28_CancelIsCooperative ==
    [][/\ (~ctxDone /\ ctxDone')
             => (task' = task /\ resultChan' = resultChan /\ wg' = wg)
       /\ \A i \in Batches :
             /\ (ctxDone /\ task[i].pc = "upload" /\ SameCall)
                   => \/ task'[i] = task[i]
                      \/ /\ task'[i].oks = task[i].oks + 1
                         /\ task'[i].pc = "done"
                         /\ task'[i].result = NoErr
                      \/ /\ task'[i].fails = task[i].fails + 1
                         /\ task'[i].oks = task[i].oks
                         /\ task'[i].uploads = task[i].uploads
                         /\ task'[i].result # Cancelled
             /\ (ctxDone /\ task[i].pc \in {"sleep", "done"} /\ SameCall)
                   => task'[i].uploads = task[i].uploads
             /\ (ctxDone /\ task[i].pc = "ready" /\ task[i].attempt > 0
                   /\ SameCall)
                   => task'[i].uploads = task[i].uploads]_vars

\* the signal is set while an upload issued before it is still in flight, and
\* a sibling that came to its check afterwards has returned Cancelled
C28_Witness ==
    /\ ctxDone
    /\ cfg.Enabled
    /\ \E i, j \in Active :
          /\ task[i].pc = "upload"
          /\ task[i].native
          /\ task[j].pc = "done"
          /\ task[j].result = Cancelled


\* the results of a caller's uploads so far were all errors
AllFailed(outs) == \A k \in 1 .. Len(outs) : outs[k] = "fail"

\* C29: every push call starts its batch at attempt 0 with backoff equal to
\* initialInterval and with no upload or sleep on record, whatever the caller's
\* earlier call and the other callers' running calls left behind; a step of
\* one call changes no other call; and the outcome of a returned call is
\* determined by its own upload results and its own cancellation signal.
C29_RetryStateIsCallScoped ==
    /\ [][\A c \in Callers :
            /\ cc'[c].calls = cc[c].calls + 1
                  => /\ cc'[c].attempt = 0
                     /\ cc'[c].backoff = bk.initialInterval
                     /\ cc'[c].outs = <<>> /\ cc'[c].sleeps = <<>>
                     /\ ~cc'[c].ctxDone
            /\ cc'[c] # cc[c]
                  => \A d \in Callers \ {c} : cc'[d] = cc[d]]_vars
    /\ [](\A c \in Callers :
            LET r == cc[c]
                n == Len(r.outs)
            IN  /\ r.attempt = Len(r.sleeps)
                /\ Len(r.sleeps) >= 1 => r.sleeps[1] = bk.initialInterval
                /\ r.pc = "returned" =>
                      IF n > 0 /\ r.outs[n] = "ok"
                        THEN r.result = NoErr /\ r.attempt = n - 1
                      ELSE IF ~cfg.Enabled
                        THEN r.result = UploadFailed(0, 1) /\ n = 1
                      ELSE IF n = maxRetries + 1
                        THEN r.result = MaxRetriesExceeded(0, n, n)
                      ELSE r.result = Cancelled /\ r.ctxDone /\ AllFailed(r.outs))

\* one caller is in the first attempt of its second call, after a call that
\* retried, while another caller's call is at a later attempt
C29_Witness ==
    \E c, d \in Callers :
        /\ cc[c].calls = 2
        /\ cc[c].pc = "upload"
        /\ cc[c].attempt = 0
        /\ cc[c].backoff = bk.initialInterval
        /\ cc[d].pc = "upload"
        /\ cc[d].attempt = 1
        /\ cc[d].backoff # bk.initialInterval


\* the configuration given to the constructor is one C30 calls invalid
C30_Invalid ==
    LET c == ctor.config
    IN  \/ "" \in {c.Endpoint, c.Environment, c.Account, c.Namespace, c.Region,
                   c.Tenant, c.RoleName, c.RoleInstance}
        \/ c.AuthMethod \notin {0, 1, 2}
        \/ c.AuthMethod = 1 /\ c.CertPath = ""
        \/ c.AuthMethod = 2 /\ c.WorkloadIdentityResource = ""

\* C30: construction validates first: for an invalid configuration it fails
\* with the validation error and no client is ever created; for any other
\* configuration validation passes, and a client exists only after it passed.
C30_ConstructionValidatesFirst ==
    /\ ctor.pc = "new" => ~clientOpen
    /\ (ctor.pc # "new" /\ C30_Invalid)
          => /\ ctor.pc = "failed"
             /\ ctor.err \notin {"", "telemetry", "client"}
             /\ ~clientOpen
    /\ (ctor.pc # "new" /\ ~C30_Invalid)
          => /\ ctor.err \in {"", "telemetry", "client"}
             /\ clientOpen <=> ctor.pc = "created"

\* certificate authentication without a certificate path was rejected
C30_Witness ==
    /\ ctor.pc = "failed"
    /\ ctor.err = "cert_path"
    /\ ctor.config.AuthMethod = 1
    /\ ctor.config.WorkloadIdentityResource = ""
    /\ ~clientOpen


\* C31: under fair scheduling every batch task that was started finishes,
\* after at most maxRetries+1 attempts (one with retry disabled), and every
\* push call that reached dispatch returns.
C31_PushTerminates ==
    /\ [](\A i \in Batches :
            task[i].uploads <= (IF cfg.Enabled THEN maxRetries + 1 ELSE 1))
    /\ \A i \in Batches :
          (task[i].pc \in {"ready", "upload", "sleep"}) ~> (task[i].pc = "done")
    /\ (callPc = "dispatch") ~> (callPc = "returned")

\* a call returned after a batch spent its whole budget and a sibling was
\* cancelled
C31_Witness ==
    /\ callPc = "returned"
    /\ ctxDone
    /\ \E i, j \in Active :
          /\ task[i].result.kind = "MaxRetriesExceeded"
          /\ task[i].uploads = maxRetries + 1
          /\ task[j].result = Cancelled

\* C32: result collection cannot deadlock. While a dispatch is in progress
\* the buffer of resultChan has room for every task that has not finished
\* (no send blocks), each task has sent at most one result, the wait group
\* counts exactly the unfinished tasks, the barrier is always reached, and
\* the channel is closed (the dispatch returns) only when every task has
\* finished, after which nothing is sent.
Unfinished == {i \in Active : task[i].pc # "done"}

C32_NoCollectionDeadlock ==
    /\ [](callPc = "dispatch" =>
            /\ Len(resultChan) + Cardinality(Unfinished) <= ChanCap
            /\ wg = Cardinality(Unfinished)
            /\ \A k, l \in 1 .. Len(resultChan) :
                  resultChan[k].index = resultChan[l].index => k = l)
    /\ (callPc = "dispatch") ~> (wg = 0)
    /\ [][(callPc = "dispatch" /\ callPc' = "returned") => Unfinished = {}]_vars
    /\ [][(callPc = "returned" /\ callNo' = callNo) => resultChan' = resultChan]_vars

\* every task of a two-batch call failed: the buffer is full at the barrier
C32_Witness ==
    /\ callPc = "returned"
    /\ numBatches = 2
    /\ Len(resultChan) = ChanCap
    /\ \A i \in Active : task[i].pc = "done" /\ task[i].fails > 0

\* C33: within a push call no upload is issued against a released BatchSet.
\* A task that has not finished (about to upload, uploading, or sleeping
\* before its next upload) always finds the BatchSet open, and the step that
\* releases the BatchSet is taken only past the barrier, when every task of
\* the call has finished; the BatchSet is released once.
C33_NoUploadAfterRelease ==
    /\ [](\A i \in Active :
            task[i].pc \in {"ready", "upload", "sleep"} => batchesOpen)
    /\ [][(batchesOpen /\ ~batchesOpen') =>
             /\ wg = 0
             /\ \A i \in Active : task[i].pc = "done" /\ ~task[i].native
             /\ batchFrees' = 1]_vars
    /\ [][(~batchesOpen /\ callNo' = callNo) => task' = task]_vars

\* a cancelled two-batch call has returned and released its BatchSet after a
\* batch was uploaded twice
C33_Witness ==
    /\ callPc = "returned"
    /\ ~batchesOpen
    /\ batchFrees = 1
    /\ ctxDone
    /\ numBatches = 2
    /\ \E i \in Active : task[i].uploads >= 2

\* C34: in the traces exporter every batch telemetry event that carries an
\* 'attempts' tag carries the number of upload calls made for that batch in
\* this call: attempt+1 on a batch exported event, maxRetries+1 on a batch
\* export-error event.
C34_AttemptsTagCountsUploads ==
    \A i \in Batches :
        \A k \in 1 .. Len(task[i].events) :
            LET ev == task[i].events[k] IN
            ev.attempts # NoAttemptsTag =>
                /\ ev.attempts = task[i].uploads
                /\ ev.attempts = IF ev.name = "batch_exported"
                                 THEN task[i].attempt + 1
                                 ELSE maxRetries + 1

\* one batch was exported at its second upload and another gave up after
\* the four uploads of the default retry budget
C34_Witness ==
    /\ cfg.Enabled
    /\ cfg.MaxRetries < 0
    /\ \E i, j \in Active :
          /\ Len(task[i].events) = 1
          /\ task[i].events[1].name = "batch_exported"
          /\ task[i].events[1].attempts = 2
          /\ Len(task[j].events) = 1
          /\ task[j].events[1].name = "batch_export_error"
          /\ task[j].events[1].attempts = DefaultMaxRetries + 1

\* C35: every completed pushTraces call has recorded exactly one traces
\* received event and exactly one of traces exported / traces export-error,
\* exported exactly when it returned nil; and when no call is in progress,
\* spans received = spans exported + spans export-errors and traces received
\* = traces exported + traces export-errors.
CountOf(events, name) ==
    Cardinality({k \in 1 .. Len(events) : events[k] = name})

Quiescent == \A c \in Callers : tel.call[c].pc \in {"idle", "returned"}

C35_PushTelemetryBalanced ==
    /\ \A c \in Callers :
          tel.call[c].pc = "returned" =>
              LET ev == tel.call[c].events IN
              /\ CountOf(ev, "traces_received") = 1
              /\ CountOf(ev, "traces_exported")
                    + CountOf(ev, "traces_export_error") = 1
              /\ CountOf(ev, "traces_exported") = 1 <=> tel.call[c].err = ""
    /\ Quiescent =>
          /\ tel.spansReceived = tel.spansExported + tel.spansExportErrors
          /\ tel.tracesReceived = tel.tracesExported + tel.tracesExportErrors

\* no call is in progress after one call exported its spans and another
\* failed at upload with spans of its own
C35_Witness ==
    /\ Quiescent
    /\ tel.tracesExported = 1
    /\ tel.tracesExportErrors = 1
    /\ tel.spansExported > 0
    /\ tel.spansExportErrors > 0
    /\ tel.spansExported # tel.spansExportErrors
    /\ \E c \in Callers : tel.call[c].err = "upload_failed"

\* C36: given the same configuration, the same upload outcomes per batch and
\* the same cancellation timing, the logs and the traces dispatch are at the
\* same point of the same state machine: each batch has made the same
\* sequence of upload attempts and sleeps (of the same lengths), holds the
\* same attempt counter and backoff, and has returned an error of the same
\* class; the failures arrive in the same order and both dispatches return
\* the same class of outcome.  The logs exporter records no telemetry event.
SameClass(a, b) ==
    /\ a.kind = b.kind
    /\ a.index = b.index
    /\ a.attempts = b.attempts
    /\ a.cause = b.cause

C36_LogsAndTracesAgree ==
    /\ lg.logs.pc = lg.traces.pc
    /\ SameClass(lg.logs.err, lg.traces.err)
    /\ Len(lg.logs.resultChan) = Len(lg.traces.resultChan)
    /\ \A k \in 1 .. Len(lg.traces.resultChan) :
          /\ k <= Len(lg.logs.resultChan)
          /\ lg.logs.resultChan[k].index = lg.traces.resultChan[k].index
    /\ \A i \in Batches :
          LET t == lg.traces.task[i]
              l == lg.logs.task[i]
          IN  /\ l.pc = t.pc
              /\ l.ops = t.ops
              /\ l.attempt = t.attempt
              /\ l.backoff = t.backoff
              /\ SameClass(l.err, t.err)
              /\ l.events = <<>>

\* both dispatches of a cancelled two-batch push have returned an error; one
\* batch gave up after sleeping, the other was cancelled, and the traces
\* exporter recorded a batch event
C36_Witness ==
    /\ lg.logs.pc = "returned"
    /\ lg.traces.pc = "returned"
    /\ lg.logs.err.kind # "nil"
    /\ \E i, j \in Active :
          /\ lg.logs.task[i].err.kind = "MaxRetriesExceeded"
          /\ Len(lg.logs.task[i].ops) >= 3
          /\ lg.traces.task[i].events # <<>>
          /\ lg.logs.task[j].err.kind = "Cancelled"

\* C37: with retry enabled, a negative maxRetries is treated as 3: a batch
\* makes at most 4 upload attempts and gives up only after 4, reporting 4
\* attempts.  With maxRetries = 0 a batch makes one attempt and never
\* sleeps, and when that attempt fails the batch returns MaxRetriesExceeded
\* with attempts = 1 (never UploadFailed).
C37_NegativeAndZeroMaxRetries ==
    \A i \in Active :
        cfg.Enabled =>
            /\ cfg.MaxRetries < 0 =>
                  /\ maxRetries = 3
                  /\ task[i].uploads <= 4
                  /\ task[i].result.kind = "MaxRetriesExceeded" =>
                        (task[i].uploads = 4 /\ task[i].result.attempts = 4)
            /\ cfg.MaxRetries = 0 =>
                  /\ task[i].uploads <= 1
                  /\ task[i].sleeps = 0
                  /\ task[i].pc # "sleep"
                  /\ task[i].result.kind # "UploadFailed"
                  /\ task[i].fails > 0 =>
                        /\ task[i].pc = "done"
                        /\ task[i].result = MaxRetriesExceeded(i, 1, 1)

\* maxRetries = 0: the only attempt of a batch failed and the call returned
\* exhaustion after 1 attempt
C37_Witness ==
    /\ cfg.Enabled
    /\ cfg.MaxRetries = 0
    /\ callPc = "returned"
    /\ callResult.kind = "MaxRetriesExceeded"
    /\ callResult.attempts = 1
    /\ \E i \in Active : task[i].fails = 1 /\ task[i].uploads = 1

\* C38: when the calls are made one after another, closing is idempotent: the
\* client handle and every BatchSet handle are freed at most once and no
\* native call is given a freed handle; a close or shutdown of a closed
\* client, and a Close of a closed BatchSet, free nothing.  On a closed
\* client an encode or upload returns 'geneva client is closed' and makes no
\* native call with the client handle.  On a closed BatchSet Len is 0 and an
\* upload returns an error.
C38_CloseIdempotent ==
    /\ [](/\ cl.clientFrees <= 1
          /\ cl.batchesFrees <= 1
          /\ cl.faults = 0
          /\ (~cl.clientHandle /\ cl.last.op \in {"encode", "upload"}) =>
                cl.last.err = ClientIsClosed
          /\ (cl.batches = "closed" /\ cl.last.op = "len") => cl.last.len = 0
          /\ (cl.batches = "closed" /\ cl.last.op = "upload") =>
                cl.last.err # "")
    /\ [][~cl.clientHandle =>
             /\ cl'.clientFrees = cl.clientFrees
             /\ cl'.clientCalls = cl.clientCalls
             /\ ~cl'.clientHandle]_vars
    /\ [][(cl.batches = "closed" /\ cl'.batches = "closed") =>
             cl'.batchesFrees = cl.batchesFrees]_vars

\* the client was closed twice and its BatchSet closed; the upload that
\* followed was refused with 'geneva client is closed'
C38_Witness ==
    /\ cl.closes >= 2
    /\ cl.clientFrees = 1
    /\ ~cl.clientHandle
    /\ cl.batches = "closed"
    /\ cl.batchesFrees = 1
    /\ cl.last.op = "upload"
    /\ cl.last.err = ClientIsClosed

\* C39: the environment override changes only role_name and role_instance:
\* each becomes the value of its variable when that is non-empty and keeps
\* the given value when the variable is unset or empty, and every other
\* field keeps the given value.  The override comes before validation:
\* nothing is validated before it, and the validation result is that of the
\* overridden configuration, so empty role fields with both variables set
\* are not rejected.
OtherFields ==
    {"Endpoint", "Environment", "Account", "Namespace", "Region", "Tenant",
     "AuthMethod", "CertPath", "WorkloadIdentityResource"}

C39_EnvOverridesRoleOnly ==
    /\ ctor.pc = "given" => (ctor.config = ctor.given /\ ctor.err = "")
    /\ ctor.pc # "given" =>
          /\ ctor.config.RoleName =
                IF ctor.env.GENEVA_ROLE_NAME # ""
                THEN ctor.env.GENEVA_ROLE_NAME ELSE ctor.given.RoleName
          /\ ctor.config.RoleInstance =
                IF ctor.env.GENEVA_ROLE_INSTANCE # ""
                THEN ctor.env.GENEVA_ROLE_INSTANCE ELSE ctor.given.RoleInstance
          /\ \A f \in OtherFields : ctor.config[f] = ctor.given[f]
    /\ ctor.pc \notin {"given", "new"} =>
          /\ ctor.err \in {"", "telemetry", "client"}
                <=> Validate(ctor.config) = ""
          /\ (ctor.env.GENEVA_ROLE_NAME # ""
                /\ ctor.env.GENEVA_ROLE_INSTANCE # "")
                => ctor.err \notin {"role_name", "role_instance"}

\* a configuration with empty role fields became an exporter because both
\* variables were set
C39_Witness ==
    /\ ctor.pc = "created"
    /\ clientOpen
    /\ ctor.given.RoleName = ""
    /\ ctor.given.RoleInstance = ""
    /\ ctor.config.RoleName = "e"
    /\ ctor.config.RoleInstance = "e"
    /\ Validate(ctor.given) = "role_name"

====
